---- MODULE Spec2Model ----
(***************************************************************************)
(* Verification model of the AirPlay receiver (src/airplay_receiver.py):   *)
(* the TLV8 codec, the AirPlayCrypto engine, the pair-setup / pair-verify  *)
(* handlers, the connection dispatcher and the stream ingestion loop.      *)
(*                                                                         *)
(* Byte strings are sequences of naturals 0..255.  Values produced by the  *)
(* crypto libraries keep their true length; their content is a filler      *)
(* byte that identifies the value that was serialised.  Key material held  *)
(* in the crypto object is symbolic (records).                             *)
(***************************************************************************)
EXTENDS Integers, Sequences, FiniteSets, TLC

VARIABLES
    srp,                \* module global `srp`: the SRP library was imported
    CRYPTO_AVAILABLE,   \* module global: the cryptography library was imported
    running,            \* AirPlayReceiver.running
    listening,          \* the asyncio server of _server_loop accepts connections
    crypto,             \* AirPlayReceiver.crypto, the one AirPlayCrypto object
    conn,               \* per connection: position of its _handle_client task
    client_id,          \* per connection: local client_id of _handle_client
    now,                \* int(time.time()); no second passes in these runs
    streams,            \* StreamManager.streams
    active_connections, \* AirPlayReceiver.active_connections (its key set)
    buffer,             \* per connection: local buffer of _process_video_stream
    frame_count,        \* per connection: local frame_count of the same loop
    last,               \* the request or chunk handled by the last step
    resp,               \* what the last step wrote to its connection
    step_failed,        \* history: open connections that had a handshake step
                        \* answered with an error attribute
    received,           \* history, per connection: the chunks the stream loop
                        \* has read from the current stream
    decoder_calls,      \* history, per connection: the units the loop has
                        \* passed to decoder.decode_frame in the current stream
    codec,              \* the TLV8 call under study and what it returned
    idle,               \* per connection: seconds its request loop has waited
                        \* in readline for the next request line
    reader,             \* the StreamReader under study: bytes on their way,
                        \* bytes buffered, and the requests read from it
    lock,               \* StreamManager.lock: "free" or the thread holding it
    thread,             \* per thread: its position in a StreamManager call
    sink_calls          \* history, per connection: the StreamManager calls of
                        \* its stream in progress or just ended (an update that
                        \* follows an update is not repeated)

vars == <<srp, CRYPTO_AVAILABLE, running, listening, crypto, conn, client_id,
          now, streams, active_connections, buffer, frame_count, last, resp,
          step_failed, received, decoder_calls, codec, idle, reader, lock, thread,
          sink_calls>>

----------------------------------------------------------------------------
(* Bounds of the model *)

\* Ed25519 key pairs generated by setup_curve25519 that are explored
MaxKeyGen == 2
\* bytes the stream loop may hold buffered before a further chunk is explored
MaxBuffered == 6

\* two concurrent connections, both from the one peer address
Conns == {"A", "B"}
\* the connection followed when one session is studied alone
One == {"A"}
PeerAddr == "10.0.0.5"

----------------------------------------------------------------------------
(* Byte strings *)

Fill(n, b) == [i \in 1..n |-> b]

\* os.urandom(n): n bytes; the content is not modelled
urandom(n) == Fill(n, 170)

\* data[a:] of Python, a >= 0
From(data, a) == SubSeq(data, a + 1, Len(data))

\* data[:a] of Python, a >= 0
Upto(data, a) == SubSeq(data, 1, IF a < Len(data) THEN a ELSE Len(data))

\* an absent key, session or secret (Python None)
None == [kind |-> "None"]

\* an empty dict
EmptyDict == [t \in {} |-> <<>>]

\* dict.get(k, default)
Get(d, k, default) == IF k \in DOMAIN d THEN d[k] ELSE default

----------------------------------------------------------------------------
(* Byte strings of the stream side.  A stream chunk and the demux buffer are *)
(* byte strings of up to 1 MiB; they are held as runs: a sequence of pairs   *)
(* <<byte, count>>, count >= 1, in which neighbouring runs differ in their   *)
(* byte.  Every byte string has exactly one such form.                       *)

\* one more byte b in front of the runs r
RunsPush(b, r) ==
    IF r # <<>> /\ r[1][1] = b
    THEN <<(<<b, r[1][2] + 1>>)>> \o Tail(r)
    ELSE <<(<<b, 1>>)>> \o r

\* the runs of a byte string given as a sequence of bytes
RECURSIVE Runs(_)
Runs(data) == IF data = <<>> THEN <<>> ELSE RunsPush(data[1], Runs(Tail(data)))

\* The runs of n copies of byte b, as Runs(Fill(n, b)) computes them.
RunsFill(n, b) == IF n = 0 THEN <<>> ELSE <<<<b, n>>>>

\* the sequence of bytes of runs
RECURSIVE BytesOf(_)
BytesOf(r) == IF r = <<>> THEN <<>> ELSE Fill(r[1][2], r[1][1]) \o BytesOf(Tail(r))

\* len(data); the runs are summed by halves, which keeps the evaluation
\* shallow on byte strings of several hundred runs
RECURSIVE RunsLen(_)
RunsLen(r) ==
    IF r = <<>> THEN 0
    ELSE IF Len(r) = 1 THEN r[1][2]
    ELSE RunsLen(SubSeq(r, 1, Len(r) \div 2))
             + RunsLen(SubSeq(r, Len(r) \div 2 + 1, Len(r)))

\* a + b
RunsCat(a, b) ==
    IF a = <<>> THEN b
    ELSE IF b = <<>> THEN a
    ELSE IF a[Len(a)][1] = b[1][1]
         THEN SubSeq(a, 1, Len(a) - 1)
                  \o <<(<<b[1][1], a[Len(a)][2] + b[1][2]>>)>> \o Tail(b)
         ELSE a \o b

\* data[k:], k >= 0; the cut is looked for in the half it falls in
RECURSIVE RunsFrom(_, _)
RunsFromHalf(r, k, half) ==
    IF k >= half THEN RunsFrom(SubSeq(r, Len(r) \div 2 + 1, Len(r)), k - half)
    ELSE RunsFrom(SubSeq(r, 1, Len(r) \div 2), k)
             \o SubSeq(r, Len(r) \div 2 + 1, Len(r))
RunsFrom(r, k) ==
    IF r = <<>> \/ k <= 0 THEN r
    ELSE IF Len(r) = 1
    THEN IF k >= r[1][2] THEN <<>> ELSE <<(<<r[1][1], r[1][2] - k>>)>>
    ELSE RunsFromHalf(r, k, RunsLen(SubSeq(r, 1, Len(r) \div 2)))

\* data[:k], k >= 0; the cut is looked for in the half it falls in
RECURSIVE RunsUpto(_, _)
RunsUptoHalf(r, k, half) ==
    IF k >= half
    THEN SubSeq(r, 1, Len(r) \div 2)
             \o RunsUpto(SubSeq(r, Len(r) \div 2 + 1, Len(r)), k - half)
    ELSE RunsUpto(SubSeq(r, 1, Len(r) \div 2), k)
RunsUpto(r, k) ==
    IF r = <<>> \/ k <= 0 THEN <<>>
    ELSE IF Len(r) = 1
    THEN IF k >= r[1][2] THEN r ELSE <<(<<r[1][1], k>>)>>
    ELSE RunsUptoHalf(r, k, RunsLen(SubSeq(r, 1, Len(r) \div 2)))

----------------------------------------------------------------------------
(* TLV8 codec *)

\* tlv8_encode splitting the data into chunks of 254 bytes
RECURSIVE tlv8_encode_chunks_of_254(_, _)
tlv8_encode_chunks_of_254(type_id, data) ==
    IF Len(data) > 254
    THEN <<type_id, 254>> \o SubSeq(data, 1, 254)
             \o tlv8_encode_chunks_of_254(type_id, From(data, 254))
    ELSE IF Len(data) > 0
         THEN <<type_id, Len(data)>> \o data
         ELSE <<>>

RECURSIVE tlv8_encode(_, _)
tlv8_encode(type_id, data) ==
    IF Len(data) > 255
    THEN <<type_id, 255>> \o SubSeq(data, 1, 255)
             \o tlv8_encode(type_id, From(data, 255))
    ELSE IF Len(data) > 0
         THEN <<type_id, Len(data)>> \o data
         ELSE <<>>

\* the loop of tlv8_decode taking what is left of a record that was cut
RECURSIVE tlv8_decode_loop_keeps_partial(_, _, _)
tlv8_decode_loop_keeps_partial(data, i, result) ==
    IF i < Len(data)
    THEN IF i + 1 >= Len(data)
         THEN result
         ELSE LET type_id == data[i + 1]
                  length  == data[i + 2]
                  j       == i + 2
                  value   == SubSeq(data, j + 1,
                                    IF j + length > Len(data) THEN Len(data) ELSE j + length)
              IN  tlv8_decode_loop_keeps_partial(data, j + length,
                     IF type_id \in DOMAIN result
                     THEN [result EXCEPT ![type_id] = @ \o value]
                     ELSE [t \in DOMAIN result \cup {type_id} |->
                              IF t = type_id THEN value ELSE result[t]])
    ELSE result

\* the loop of tlv8_decode keeping only the last record of each type_id
RECURSIVE tlv8_decode_loop_last_wins(_, _, _)
tlv8_decode_loop_last_wins(data, i, result) ==
    IF i < Len(data)
    THEN IF i + 1 >= Len(data)
         THEN result
         ELSE LET type_id == data[i + 1]
                  length  == data[i + 2]
                  j       == i + 2
              IN  IF j + length > Len(data)
                  THEN result
                  ELSE LET value == SubSeq(data, j + 1, j + length)
                       IN  tlv8_decode_loop_last_wins(data, j + length,
                              [t \in DOMAIN result \cup {type_id} |->
                                  IF t = type_id THEN value ELSE result[t]])
    ELSE result

\* the while loop of tlv8_decode; i is the 0-based index of the code
RECURSIVE tlv8_decode_loop(_, _, _)
tlv8_decode_loop(data, i, result) ==
    IF i < Len(data)
    THEN IF i + 1 >= Len(data)
         THEN result
         ELSE LET type_id == data[i + 1]
                  length  == data[i + 2]
                  j       == i + 2
              IN  IF j + length > Len(data)
                  THEN result
                  ELSE LET value == SubSeq(data, j + 1, j + length)
                       IN  tlv8_decode_loop(data, j + length,
                              IF type_id \in DOMAIN result
                              THEN [result EXCEPT ![type_id] = @ \o value]
                              ELSE [t \in DOMAIN result \cup {type_id} |->
                                       IF t = type_id THEN value ELSE result[t]])
    ELSE result

tlv8_decode(data) == tlv8_decode_loop(data, 0, EmptyDict)

----------------------------------------------------------------------------
(* Symbolic key material and the library primitives *)

\* HKDF(SHA512, length 32, salt, info).derive(ikm)
HKDF(salt, info, ikm) == [kind |-> "HKDF", salt |-> salt, info |-> info, ikm |-> ikm]

\* the Ed25519 key pair number id generated by this process
Ed25519Key(id) == [kind |-> "Ed25519", id |-> id]

\* number of Ed25519 key pairs generated so far
KeyGen(cr) == IF cr.ed_private_key = None THEN 0 ELSE cr.ed_private_key.id

\* public_bytes(Raw, Raw) of an Ed25519 public key: 32 bytes
public_bytes(key) == Fill(32, key.id)

\* Ed25519PrivateKey.sign: a 64-byte signature
Ed25519_sign(key, data) == Fill(64, key.id)

\* Byte by which the cipher model masks data under a derived key: it depends
\* on the direction constants and on the secret the key was derived from.
KeyByte(key) ==
    LET m == key.ikm.ikm
    IN  ((IF key.salt = "Pair-Verify-Encrypt-Salt" THEN 1 ELSE 2)
           + (IF Len(m) > 0 THEN m[1] + 3 * m[Len(m)] ELSE 0)) % 256

\* ChaCha20Poly1305(key).encrypt(nonce, plaintext, None): ciphertext || tag(16)
ChaCha20Poly1305_encrypt(key, plaintext) ==
    [i \in 1..Len(plaintext) |-> (plaintext[i] + KeyByte(key)) % 256]
        \o Fill(16, KeyByte(key))

\* ChaCha20Poly1305(key).decrypt(nonce, ciphertext, None): the plaintext, or
\* InvalidTag (ok = FALSE) when the trailing 16-byte tag does not verify
ChaCha20Poly1305_decrypt(key, ciphertext) ==
    LET n == Len(ciphertext) - 16
    IN  IF n < 0 \/ From(ciphertext, n) # Fill(16, KeyByte(key))
        THEN [ok |-> FALSE, plaintext |-> <<>>]
        ELSE [ok |-> TRUE,
              plaintext |-> [i \in 1..n |-> (ciphertext[i] + 256 - KeyByte(key)) % 256]]

\* srp.Verifier.verify_session(M1): the client proof M1 matches the session
\* key exactly when it is the proof that belongs to the client public key A
ProofMatches(client_public, client_proof) ==
    /\ client_public # <<>>
    /\ client_proof = Fill(20, client_public[1])

----------------------------------------------------------------------------
(* AirPlayCrypto *)

\* AirPlayCrypto.__init__
AirPlayCrypto_init ==
    [srp_user |-> None, srp_verifier |-> None, srp_salt |-> None,
     srp_session |-> None, srp_key |-> None,
     ed_private_key |-> None, ed_public_key |-> None, shared_secret |-> None,
     encryption_key |-> None, decryption_key |-> None,
     is_paired |-> FALSE]

\* setup_srp with a slip on the exception path: no fallback public key
setup_srp_no_fallback_key(cr, lib) ==
    IF ~srp
    THEN [crypto |-> cr, salt |-> urandom(16), server_public |-> urandom(384)]
    ELSE LET c1 == [cr EXCEPT !.srp_user = [kind |-> "Pair-Setup"],
                              !.srp_salt = [kind |-> "urandom"],
                              !.srp_verifier = [kind |-> "verification_key"]]
         IN  IF lib = "raise"
             THEN [crypto |-> c1, salt |-> urandom(16), server_public |-> <<>>]
             ELSE [crypto |-> [c1 EXCEPT !.srp_session = [kind |-> "Verifier"]],
                   salt |-> urandom(16), server_public |-> urandom(384)]

\* setup_srp; lib = "raise" when building the srp.Verifier raises.
\* Result: the crypto object after the call, the salt and the public key.
setup_srp(cr, lib) ==
    IF ~srp
    THEN [crypto |-> cr, salt |-> urandom(16), server_public |-> urandom(384)]
    ELSE LET c1 == [cr EXCEPT !.srp_user = [kind |-> "Pair-Setup"],
                              !.srp_salt = [kind |-> "urandom"],
                              !.srp_verifier = [kind |-> "verification_key"]]
         IN  IF lib = "raise"
             THEN [crypto |-> c1, salt |-> urandom(16), server_public |-> urandom(384)]
             ELSE [crypto |-> [c1 EXCEPT !.srp_session = [kind |-> "Verifier"]],
                   salt |-> urandom(16), server_public |-> urandom(384)]

\* verify_srp; lib = "raise" when set_A or verify_session raises.
\* Result: the crypto object and the returned proof (some = FALSE for None).
verify_srp(cr, client_public, client_proof, lib) ==
    IF ~srp \/ cr.srp_session = None
    THEN [crypto |-> cr, some |-> TRUE, proof |-> urandom(64)]
    ELSE IF lib = "raise"
         THEN [crypto |-> cr, some |-> TRUE, proof |-> urandom(64)]
         ELSE IF ProofMatches(client_public, client_proof)
              THEN [crypto |-> [cr EXCEPT !.srp_key = [kind |-> "session_key"]],
                    some |-> TRUE, proof |-> Fill(20, 77)]
              ELSE [crypto |-> cr, some |-> FALSE, proof |-> <<>>]

\* setup_curve25519: generates a new Ed25519 key pair on every call.  The key
\* generation takes no argument and is taken to succeed when the library is
\* there, so the except branch (the same 32 random bytes) is not a separate case.
setup_curve25519(cr) ==
    IF ~CRYPTO_AVAILABLE
    THEN [crypto |-> cr, public |-> urandom(32)]
    ELSE LET key == Ed25519Key(KeyGen(cr) + 1)
         IN  [crypto |-> [cr EXCEPT !.ed_private_key = key, !.ed_public_key = key],
              public |-> public_bytes(key)]

\* compute_shared_secret; lib = "shared_raise" when the derivation raises.
\* Only the crypto object matters: the callers ignore the returned value.
compute_shared_secret(cr, client_public_key, server_public_key, lib) ==
    IF ~CRYPTO_AVAILABLE \/ lib = "shared_raise"
    THEN cr
    ELSE [cr EXCEPT !.shared_secret =
              HKDF("Pair-Verify-Encrypt-Salt", "Pair-Verify-Encrypt-Info",
                   client_public_key \o server_public_key)]

\* the key encrypt_data derives when none is cached
EncryptionKeyOf(shared_secret) ==
    HKDF("Pair-Verify-Encrypt-Salt", "Pair-Verify-Encrypt-Info", shared_secret)

\* the decrypt-direction derivation with the encrypt direction's constants
DecryptionKeyOf_encrypt_constants(shared_secret) ==
    HKDF("Pair-Verify-Encrypt-Salt", "Pair-Verify-Encrypt-Info", shared_secret)

\* the key decrypt_data derives when none is cached
DecryptionKeyOf(shared_secret) ==
    HKDF("Pair-Verify-Decrypt-Salt", "Pair-Verify-Decrypt-Info", shared_secret)

\* the key encrypt_data uses: the cached one, else one derived now
EncryptionKeyUsed(cr) ==
    IF cr.encryption_key = None THEN EncryptionKeyOf(cr.shared_secret)
    ELSE cr.encryption_key

\* the key decrypt_data uses: the cached one, else one derived now
DecryptionKeyUsed(cr) ==
    IF cr.decryption_key = None THEN DecryptionKeyOf(cr.shared_secret)
    ELSE cr.decryption_key

\* encrypt_data deriving its key before it looks for the shared secret
encrypt_data_key_before_guard(cr, plaintext, lib) ==
    LET c1 == [cr EXCEPT !.encryption_key = EncryptionKeyUsed(cr)]
    IN  IF ~CRYPTO_AVAILABLE
        THEN [crypto |-> cr, data |-> urandom(Len(plaintext) + 16)]
        ELSE IF cr.shared_secret = None \/ lib = "encrypt_raise"
             THEN [crypto |-> c1, data |-> urandom(Len(plaintext) + 16)]
             ELSE [crypto |-> c1,
                   data |-> ChaCha20Poly1305_encrypt(c1.encryption_key, plaintext)]

\* encrypt_data(plaintext) with a generated nonce; lib = "encrypt_raise" when
\* the cipher raises (after the key was derived)
encrypt_data(cr, plaintext, lib) ==
    IF ~CRYPTO_AVAILABLE \/ cr.shared_secret = None
    THEN [crypto |-> cr, data |-> urandom(Len(plaintext) + 16)]
    ELSE LET c1 == [cr EXCEPT !.encryption_key = EncryptionKeyUsed(cr)]
         IN  IF lib = "encrypt_raise"
             THEN [crypto |-> c1, data |-> urandom(Len(plaintext) + 16)]
             ELSE [crypto |-> c1,
                   data |-> ChaCha20Poly1305_encrypt(c1.encryption_key, plaintext)]

\* decrypt_data(ciphertext, nonce): some = FALSE for None
decrypt_data(cr, ciphertext, nonce) ==
    IF ~CRYPTO_AVAILABLE \/ cr.shared_secret = None
    THEN [crypto |-> cr, some |-> FALSE, data |-> <<>>]
    ELSE LET c1 == [cr EXCEPT !.decryption_key = DecryptionKeyUsed(cr)]
             r  == ChaCha20Poly1305_decrypt(c1.decryption_key, ciphertext)
         IN  [crypto |-> c1, some |-> r.ok, data |-> r.plaintext]

\* sign_data; lib = "sign_raise" when the signing raises
sign_data(cr, data, lib) ==
    IF ~CRYPTO_AVAILABLE \/ cr.ed_private_key = None \/ lib = "sign_raise"
    THEN urandom(64)
    ELSE Ed25519_sign(cr.ed_private_key, data)

\* _get_device_id().encode(): 17 bytes, six hex pairs joined by ':'
device_id_bytes == Fill(17, 58)

----------------------------------------------------------------------------
(* Pairing handlers *)

\* outcome of a handler that raised: nothing is written
Raised(cr) == [crypto |-> cr, raised |-> TRUE, tlv_data |-> <<>>]

Answer(cr, tlv_data) == [crypto |-> cr, raised |-> FALSE, tlv_data |-> tlv_data]

\* bytes([n]) raises ValueError unless 0 <= n <= 255
IsByte(n) == n >= 0 /\ n <= 255

\* _handle_pair_setup up to the response TLV; lib is the outcome of the SRP
\* library call the step makes
pair_setup(cr, body, lib) ==
    LET request_tlv == IF body # <<>> THEN tlv8_decode(body) ELSE EmptyDict
        state_value == Get(request_tlv, 6, <<1>>)
    IN  IF state_value = <<>>
        THEN Raised(cr)
        ELSE LET state == state_value[1]
             IN  IF state = 1
                 THEN LET r == setup_srp(cr, lib)
                      IN  Answer(r.crypto,
                                 tlv8_encode(6, <<2>>) \o tlv8_encode(2, r.salt)
                                     \o tlv8_encode(3, r.server_public))
                 ELSE IF state = 3
                 THEN LET client_public == Get(request_tlv, 3, <<>>)
                          client_proof  == Get(request_tlv, 4, <<>>)
                          r == verify_srp(cr, client_public, client_proof, lib)
                      IN  Answer(r.crypto,
                                 tlv8_encode(6, <<4>>)
                                     \o (IF r.some /\ r.proof # <<>>
                                         THEN tlv8_encode(4, r.proof)
                                         ELSE tlv8_encode(7, <<2>>)))
                 ELSE IF IsByte(state + 1)
                 THEN Answer(cr, tlv8_encode(6, <<state + 1>>) \o tlv8_encode(7, <<1>>))
                 ELSE Raised(cr)

\* _handle_pair_verify up to the response TLV; lib is the outcome of the
\* cryptography library calls the step makes
pair_verify(cr, body, lib) ==
    LET request_tlv == IF body # <<>> THEN tlv8_decode(body) ELSE EmptyDict
        state_value == Get(request_tlv, 6, <<1>>)
    IN  IF state_value = <<>>
        THEN Raised(cr)
        ELSE LET state == state_value[1]
             IN  IF state = 1
                 THEN LET client_public == Get(request_tlv, 3, <<>>)
                          k  == setup_curve25519(cr)
                          c2 == compute_shared_secret(k.crypto, client_public, k.public, lib)
                          signature == sign_data(c2, k.public \o client_public, lib)
                          plaintext == <<0>> \o device_id_bytes \o signature
                          e  == encrypt_data(c2, plaintext, lib)
                      IN  Answer(e.crypto,
                                 tlv8_encode(6, <<2>>) \o tlv8_encode(3, k.public)
                                     \o tlv8_encode(5, e.data))
                 ELSE IF state = 3
                 THEN Answer([cr EXCEPT !.is_paired = TRUE], tlv8_encode(6, <<4>>))
                 ELSE IF IsByte(state + 1)
                 THEN Answer(cr, tlv8_encode(6, <<state + 1>>) \o tlv8_encode(7, <<1>>))
                 ELSE Raised(cr)

----------------------------------------------------------------------------
(* Requests and responses *)

\* nothing was written to the connection
NoResponse == [status |-> 0, content_length |-> -1, body |-> <<>>]

\* a "200 OK" response; content_length -1 when the header is not sent
Response(content_length, body) ==
    [status |-> 200, content_length |-> content_length, body |-> body]

NoId == <<"", 0>>

Step(c, op, body) == [conn |-> c, op |-> op, body |-> body]

\* no TLV8 call is under study
NoCall == [op |-> "none"]

\* no StreamReader is under study
NoReader == [op |-> "none"]

\* the threads that call the StreamManager, and a thread outside any call
Threads == {"loop", "capture"}
IdleThread == [pc |-> "idle"]

\* a history with one more call, a call that repeats the last one left out
AppendOnce(calls, call) ==
    IF calls # <<>> /\ calls[Len(calls)] = call THEN calls ELSE Append(calls, call)

\* the request paths of the model, and those that contain a given substring
Paths == {"/info", "/server-info", "/pair-setup", "/pair-verify", "/fp-setup",
          "/stream", "/reverse", "/feedback", "/play"}
PathsWith(sub) == {path \in Paths : path = sub}

\* the elif chain of _handle_airplay_request
Route(method, path) ==
    IF path \in PathsWith("/info") THEN "info"
    ELSE IF path \in PathsWith("/server-info") THEN "server-info"
    ELSE IF path = "/pair-setup" /\ method = "POST" THEN "pair-setup"
    ELSE IF path = "/pair-verify" /\ method = "POST" THEN "pair-verify"
    ELSE IF path = "/fp-setup" /\ method = "POST" THEN "fp-setup"
    ELSE IF path \in PathsWith("/stream") /\ method = "POST" THEN "stream"
    ELSE IF path \in PathsWith("/reverse") THEN "reverse"
    ELSE IF path = "/feedback" /\ method = "POST" THEN "feedback"
    ELSE "unknown"

\* The request bodies offered to the handshake endpoints.
StateBytes == {0, 1, 3, 4, 255}
\* no state attribute, a state attribute with an empty value, one state byte
StateAttrs == {<<>>, <<6, 0>>} \cup {tlv8_encode(6, <<b>>) : b \in StateBytes}
\* the client's SRP public value A, its proof M1 and a proof that does not match
ClientA   == Fill(384, 5)
GoodProof == Fill(20, 5)
BadProof  == Fill(20, 6)
SetupBodies ==
    StateAttrs \cup
    {tlv8_encode(6, <<3>>) \o a \o m :
        a \in {<<>>, tlv8_encode(3, ClientA)},
        m \in {<<>>, tlv8_encode(4, GoodProof), tlv8_encode(4, BadProof)}}

\* the client's Curve25519 public keys
ClientKeys == {Fill(32, 11)}
\* the confirmation blob an honest client sends for the current shared secret
HonestBlob(cr) ==
    IF cr.shared_secret = None THEN {}
    ELSE {ChaCha20Poly1305_encrypt(DecryptionKeyOf(cr.shared_secret), Fill(4, 1))}
VerifyBodies(cr) ==
    StateAttrs \cup
    {tlv8_encode(6, <<1>>) \o tlv8_encode(3, k) : k \in ClientKeys} \cup
    {tlv8_encode(6, <<3>>) \o tlv8_encode(5, e) : e \in {Fill(20, 1)} \cup HonestBlob(cr)}

----------------------------------------------------------------------------
(* StreamManager (src/src/webrtc/stream_manager.py), as the receiver calls it *)

max_streams == 8

\* add_stream(client_id, frame, name): [streams, the returned bool]
add_stream(reg, id, frame) ==
    IF Cardinality(DOMAIN reg) >= max_streams
    THEN [streams |-> reg, ok |-> FALSE]
    ELSE [streams |-> [k \in DOMAIN reg \cup {id} |-> IF k = id THEN frame ELSE reg[k]],
          ok |-> TRUE]

\* update_frame storing the frame whether or not the stream is registered
update_stream_creates_entry(reg, id, frame) ==
    [k \in DOMAIN reg \cup {id} |-> IF k = id THEN frame ELSE reg[k]]

\* update_stream / update_frame
update_stream(reg, id, frame) ==
    IF id \in DOMAIN reg THEN [reg EXCEPT ![id] = frame] ELSE reg

\* remove_stream leaving the entry in place
remove_stream_keeps_entry(reg, id) == reg

\* remove_stream
remove_stream(reg, id) == [k \in DOMAIN reg \ {id} |-> reg[k]]

----------------------------------------------------------------------------
(* Stream demuxer: the body of the loop of _process_video_stream *)

Marker == <<0, 0, 0, 1>>

\* buffer.find(Marker, start): 0-based index of the first match at or after
\* start, or -1.  In runs, the marker begins three bytes before the end of
\* a run of zeros that a run of ones follows.
Find(buf, start) ==
    LET ends == {j \in 1..(Len(buf) - 1) :
                    buf[j][1] = 0 /\ buf[j][2] >= 3 /\ buf[j + 1][1] = 1}
        hits == {p \in {RunsLen(SubSeq(buf, 1, j)) - 3 : j \in ends} : p >= start}
    IN  IF hits = {} THEN -1 ELSE CHOOSE i \in hits : \A h \in hits : i <= h

\* the cap keeping the oldest 1 MiB: buffer[:1024*1024]
cap_buffer_keeps_oldest(b) ==
    IF RunsLen(b) > 1024 * 1024 THEN RunsUpto(b, 1024 * 1024) ELSE b

\* the cap left out: the buffer is kept whole
cap_buffer_keeps_all(b) == b

\* buffer[-1024*1024:] when the buffer has grown over 1 MiB
cap_buffer(b) ==
    IF RunsLen(b) > 1024 * 1024 THEN RunsFrom(b, RunsLen(b) - 1024 * 1024) ELSE b

\* the buffer b1 after the two finds: a unit is cut out when a second marker
\* was found.  (The finds are passed in so that each is computed once.)
cut_unit(cr, b1, nal_start, next_nal) ==
    [crypto |-> cr, dropped |-> FALSE,
     buffer |-> cap_buffer(IF next_nal # -1 THEN RunsFrom(b1, next_nal) ELSE b1),
     unit |-> IF next_nal # -1
              THEN <<RunsFrom(RunsUpto(b1, next_nal), nal_start)>> ELSE <<>>]

\* the find of the next marker, made only when a first one was found
find_next_nal(cr, b1, nal_start) ==
    cut_unit(cr, b1, nal_start,
             IF nal_start # -1 THEN Find(b1, nal_start + 4) ELSE -1)

\* the find of the first marker, made only when the buffer is over 1024 bytes
find_nal_start(cr, b1) ==
    find_next_nal(cr, b1, IF RunsLen(b1) > 1024 THEN Find(b1, 0) ELSE -1)

\* One iteration on a non-empty chunk `data`, up to the call of the decoder:
\* the crypto object, whether the chunk was dropped, the buffer the
\* iteration leaves, and the unit it passes to decode_frame (none or one)
demux_chunk(cr, buf, data) ==
    LET d == decrypt_data(cr, BytesOf(RunsFrom(data, 12)), BytesOf(RunsUpto(data, 12)))
    IN  IF cr.is_paired /\ cr.decryption_key # None
        THEN IF d.some /\ d.data # <<>>
             THEN find_nal_start(d.crypto, RunsCat(buf, Runs(d.data)))
             ELSE [crypto |-> d.crypto, dropped |-> TRUE, buffer |-> buf, unit |-> <<>>]
        ELSE find_nal_start(cr, RunsCat(buf, data))

\* the rest of the iteration counting every unit passed to the decoder
deliver_counts_every_unit(m, count, reg, id, decoded) ==
    LET shown == m.unit # <<>> /\ decoded # "None"
    IN  [crypto |-> m.crypto, buffer |-> m.buffer,
         frame_count |-> IF m.unit # <<>> THEN count + 1 ELSE count,
         streams |-> IF shown THEN update_stream(reg, id, decoded) ELSE reg,
         calls |-> IF m.unit # <<>>
                   THEN <<[nal_data |-> m.unit[1], frame |-> decoded]>>
                   ELSE <<>>]

\* The rest of the iteration: decoded is what decode_frame returns for the
\* unit ("None" or a frame).  Result: crypto object, buffer, frame_count,
\* registry, and calls: the call of decode_frame that was made (none or one),
\* with the unit passed and what was returned.
deliver(m, count, reg, id, decoded) ==
    LET shown == m.unit # <<>> /\ decoded # "None"
    IN  [crypto |-> m.crypto, buffer |-> m.buffer,
         frame_count |-> IF shown THEN count + 1 ELSE count,
         streams |-> IF shown THEN update_stream(reg, id, decoded) ELSE reg,
         calls |-> IF m.unit # <<>>
                   THEN <<[nal_data |-> m.unit[1], frame |-> decoded]>>
                   ELSE <<>>]

\* one whole iteration of the loop of _process_video_stream
process_chunk(cr, buf, count, reg, id, data, decoded) ==
    deliver(demux_chunk(cr, buf, data), count, reg, id, decoded)

\* The chunks offered to the stream loop: a clear start marker with a byte,
\* and what an honest paired client sends (nonce, ciphertext, tag).
StreamChunks(cr) ==
    {Runs(Marker \o <<7>>)} \cup
    (IF cr.shared_secret = None THEN {}
     ELSE {Runs(Fill(12, 3) \o ChaCha20Poly1305_encrypt(DecryptionKeyOf(cr.shared_secret),
                                                        Marker \o <<7>>))})

----------------------------------------------------------------------------
(* State machine *)

Init ==
    /\ (srp = TRUE \/ srp = FALSE)
    /\ (CRYPTO_AVAILABLE = TRUE \/ CRYPTO_AVAILABLE = FALSE)
    /\ running = FALSE
    /\ listening = FALSE
    /\ crypto = AirPlayCrypto_init
    /\ conn = [c \in Conns |-> "closed"]
    /\ client_id = [c \in Conns |-> NoId]
    /\ now = 0
    /\ streams = EmptyDict
    /\ active_connections = {}
    /\ buffer = [c \in Conns |-> <<>>]
    /\ frame_count = [c \in Conns |-> 0]
    /\ last = Step("-", "init", <<>>)
    /\ resp = NoResponse
    /\ step_failed = {}
    /\ received = [c \in Conns |-> <<>>]
    /\ decoder_calls = [c \in Conns |-> <<>>]
    /\ codec = NoCall
    /\ idle = [c \in Conns |-> 0]
    /\ reader = NoReader
    /\ lock = "free"
    /\ thread = [t \in Threads |-> IdleThread]
    /\ sink_calls = [c \in Conns |-> <<>>]

\* start(): sets running, advertises (generating the Ed25519 key when
\* zeroconf is available) and starts the server thread
Start ==
    /\ ~running
    /\ ~listening
    /\ \E ZEROCONF_AVAILABLE \in BOOLEAN :
          crypto' = IF ZEROCONF_AVAILABLE THEN setup_curve25519(crypto).crypto ELSE crypto
    /\ running' = TRUE
    /\ listening' = TRUE
    /\ last' = Step("-", "start", <<>>)
    /\ resp' = NoResponse
    /\ UNCHANGED <<srp, CRYPTO_AVAILABLE, conn, client_id, now, streams,
                   active_connections, buffer, frame_count, step_failed,
                   received, decoder_calls, codec,
                   idle, reader, lock, thread, sink_calls>>

\* stop(): clears running; the server thread keeps serving
Stop ==
    /\ running
    /\ running' = FALSE
    /\ last' = Step("-", "stop", <<>>)
    /\ resp' = NoResponse
    /\ UNCHANGED <<srp, CRYPTO_AVAILABLE, listening, crypto, conn, client_id, now,
                   streams, active_connections, buffer, frame_count, step_failed,
                   received, decoder_calls, codec,
                   idle, reader, lock, thread, sink_calls>>

\* _handle_client is started for an accepted connection
Accept(c) ==
    /\ listening
    /\ conn[c] = "closed"
    /\ conn' = [conn EXCEPT ![c] = "open"]
    /\ client_id' = [client_id EXCEPT ![c] = <<PeerAddr, now>>]
    /\ last' = Step(c, "accept", <<>>)
    /\ resp' = NoResponse
    /\ idle' = [idle EXCEPT ![c] = 0]
    /\ sink_calls' = [sink_calls EXCEPT ![c] = <<>>]
    /\ UNCHANGED <<srp, CRYPTO_AVAILABLE, running, listening, crypto, now, streams,
                   active_connections, buffer, frame_count, step_failed,
                   received, decoder_calls, codec,
                   reader, lock, thread>>

\* the request loop ends: empty request line (peer closed) or a request line
\* without GET/POST; in runs without a clock, an idle timeout as well
Close(c) ==
    /\ conn[c] = "open"
    /\ conn' = [conn EXCEPT ![c] = "closed"]
    /\ client_id' = [client_id EXCEPT ![c] = NoId]
    /\ step_failed' = step_failed \ {c}
    /\ last' = Step(c, "close", <<>>)
    /\ resp' = NoResponse
    /\ idle' = [idle EXCEPT ![c] = 0]
    /\ sink_calls' = [sink_calls EXCEPT ![c] = <<>>]
    /\ UNCHANGED <<srp, CRYPTO_AVAILABLE, running, listening, crypto, now, streams,
                   active_connections, buffer, frame_count,
                   received, decoder_calls, codec,
                   reader, lock, thread>>

\* what a handshake handler leaves behind: the response, or on an exception
\* no response and a closed connection
Handshake(c, op, body, r) ==
    /\ crypto' = r.crypto
    /\ last' = Step(c, op, body)
    /\ resp' = IF r.raised THEN NoResponse ELSE Response(Len(r.tlv_data), r.tlv_data)
    /\ conn' = IF r.raised THEN [conn EXCEPT ![c] = "closed"] ELSE conn
    /\ client_id' = IF r.raised THEN [client_id EXCEPT ![c] = NoId] ELSE client_id
    /\ step_failed' = IF r.raised THEN step_failed \ {c}
                      ELSE IF 7 \in DOMAIN tlv8_decode(r.tlv_data)
                           THEN step_failed \cup {c} ELSE step_failed
    /\ idle' = [idle EXCEPT ![c] = 0]
    /\ sink_calls' = [sink_calls EXCEPT ![c] = <<>>]
    /\ UNCHANGED <<srp, CRYPTO_AVAILABLE, running, listening, now, streams,
                   active_connections, buffer, frame_count,
                   received, decoder_calls, codec,
                   reader, lock, thread>>

\* the state byte a handshake handler reads from a body (-1: none readable)
StateOf(body) ==
    LET v == Get(IF body # <<>> THEN tlv8_decode(body) ELSE EmptyDict, 6, <<1>>)
    IN  IF v = <<>> THEN -1 ELSE v[1]

\* POST /pair-setup; the SRP library is called in states 1 and 3 only
PairSetup(c) ==
    /\ conn[c] = "open"
    /\ Route("POST", "/pair-setup") = "pair-setup"
    /\ \E body \in SetupBodies :
          \E lib \in IF srp /\ StateOf(body) \in {1, 3} THEN {"ok", "raise"} ELSE {"ok"} :
              Handshake(c, "pair-setup", body, pair_setup(crypto, body, lib))

\* POST /pair-verify; the cryptography library is called in state 1 only
PairVerify(c) ==
    /\ conn[c] = "open"
    /\ Route("POST", "/pair-verify") = "pair-verify"
    /\ \E body \in VerifyBodies(crypto) :
          \E lib \in IF CRYPTO_AVAILABLE /\ StateOf(body) = 1
                     THEN {"ok", "shared_raise", "sign_raise", "encrypt_raise"}
                     ELSE {"ok"} :
              LET r == pair_verify(crypto, body, lib)
              IN  /\ KeyGen(r.crypto) <= MaxKeyGen
                  /\ Handshake(c, "pair-verify", body, r)

\* GET /info: the descriptor; its one varying field is the public key pk
Info(c) ==
    /\ conn[c] = "open"
    /\ Route("GET", "/info") = "info"
    /\ LET pk == IF CRYPTO_AVAILABLE /\ crypto.ed_public_key # None
                 THEN public_bytes(crypto.ed_public_key) ELSE <<>>
       IN  resp' = Response(Len(pk), pk)
    /\ last' = Step(c, "info", <<>>)
    /\ idle' = [idle EXCEPT ![c] = 0]
    /\ sink_calls' = [sink_calls EXCEPT ![c] = <<>>]
    /\ UNCHANGED <<srp, CRYPTO_AVAILABLE, running, listening, crypto, conn, client_id,
                   now, streams, active_connections, buffer, frame_count, step_failed,
                   received, decoder_calls, codec,
                   reader, lock, thread>>

\* the unknown-endpoint branch ending the request loop after its reply
EmptyReply_unknown_ends_loop(c) ==
    /\ conn[c] = "open"
    /\ \E method \in {"GET", "POST"}, path \in {"/fp-setup", "/feedback", "/play", "/pair-setup"} :
          /\ Route(method, path) \in {"fp-setup", "feedback", "unknown"}
          /\ last' = Step(c, Route(method, path), <<>>)
          /\ conn' = IF Route(method, path) = "unknown"
                     THEN [conn EXCEPT ![c] = "closed"] ELSE conn
    /\ resp' = Response(0, <<>>)
    /\ idle' = [idle EXCEPT ![c] = 0]
    /\ sink_calls' = [sink_calls EXCEPT ![c] = <<>>]
    /\ UNCHANGED <<srp, CRYPTO_AVAILABLE, running, listening, crypto, client_id,
                   now, streams, active_connections, buffer, frame_count, step_failed,
                   received, decoder_calls, codec,
                   reader, lock, thread>>

\* a request routed to fp-setup, feedback or the unknown-endpoint branch:
\* an empty 200 reply
EmptyReply(c) ==
    /\ conn[c] = "open"
    /\ \E method \in {"GET", "POST"}, path \in {"/fp-setup", "/feedback", "/play", "/pair-setup"} :
          /\ Route(method, path) \in {"fp-setup", "feedback", "unknown"}
          /\ last' = Step(c, Route(method, path), <<>>)
    /\ resp' = Response(0, <<>>)
    /\ idle' = [idle EXCEPT ![c] = 0]
    /\ sink_calls' = [sink_calls EXCEPT ![c] = <<>>]
    /\ UNCHANGED <<srp, CRYPTO_AVAILABLE, running, listening, crypto, conn, client_id,
                   now, streams, active_connections, buffer, frame_count, step_failed,
                   received, decoder_calls, codec,
                   reader, lock, thread>>

\* a request line with a method and no path: the handler returns, nothing is
\* written, the loop reads on
NoPath(c) ==
    /\ conn[c] = "open"
    /\ last' = Step(c, "no-path", <<>>)
    /\ resp' = NoResponse
    /\ idle' = [idle EXCEPT ![c] = 0]
    /\ sink_calls' = [sink_calls EXCEPT ![c] = <<>>]
    /\ UNCHANGED <<srp, CRYPTO_AVAILABLE, running, listening, crypto, conn, client_id,
                   now, streams, active_connections, buffer, frame_count, step_failed,
                   received, decoder_calls, codec,
                   reader, lock, thread>>

\* POST /stream: _handle_stream up to the first read of the stream loop
StreamStart(c) ==
    /\ conn[c] = "open"
    /\ Route("POST", "/stream") = "stream"
    /\ conn' = [conn EXCEPT ![c] = "stream"]
    /\ active_connections' = active_connections \cup {client_id[c]}
    /\ streams' = add_stream(streams, client_id[c], "placeholder").streams
    /\ buffer' = [buffer EXCEPT ![c] = <<>>]
    /\ frame_count' = [frame_count EXCEPT ![c] = 0]
    /\ received' = [received EXCEPT ![c] = <<>>]
    /\ decoder_calls' = [decoder_calls EXCEPT ![c] = <<>>]
    /\ last' = Step(c, "stream", <<>>)
    /\ resp' = Response(-1, <<>>)
    /\ idle' = [idle EXCEPT ![c] = 0]
    /\ sink_calls' = [sink_calls EXCEPT ![c] = <<"add_stream">>]
    /\ UNCHANGED <<srp, CRYPTO_AVAILABLE, running, listening, crypto, client_id, now,
                   step_failed,
                   codec, reader, lock, thread>>

\* one iteration of the stream loop: reader.read returned the chunk `data`,
\* and decode_frame returns `decoded` if the iteration calls it
Ingest(c, data) ==
    /\ conn[c] = "stream"
    /\ running
    /\ \E m \in {demux_chunk(crypto, buffer[c], data)}, decoded \in {"None", "frame"} :
       \E r \in {deliver(m, frame_count[c], streams, client_id[c], decoded)} :
           /\ crypto' = r.crypto
           /\ buffer' = [buffer EXCEPT ![c] = r.buffer]
           /\ frame_count' = [frame_count EXCEPT ![c] = r.frame_count]
           /\ streams' = r.streams
           /\ received' = [received EXCEPT ![c] = Append(@, data)]
           /\ decoder_calls' = [decoder_calls EXCEPT ![c] = @ \o r.calls]
           /\ sink_calls' = [sink_calls EXCEPT ![c] =
                                IF m.unit # <<>> /\ decoded # "None"
                                THEN AppendOnce(@, "update_stream") ELSE @]
           /\ last' = Step(c, "chunk", data)
    /\ resp' = NoResponse
    /\ UNCHANGED <<srp, CRYPTO_AVAILABLE, running, listening, conn, client_id, now,
                   active_connections, step_failed, codec, idle, reader, lock, thread>>

\* one iteration of the stream loop on a chunk that was read
StreamChunk(c) ==
    /\ RunsLen(buffer[c]) <= MaxBuffered
    /\ \E data \in StreamChunks(crypto) : Ingest(c, data)

\* the stream loop ending with no call of remove_stream
StreamEnd_without_remove(c) ==
    /\ conn[c] = "stream"
    /\ conn' = [conn EXCEPT ![c] = "open"]
    /\ active_connections' = active_connections \ {client_id[c]}
    /\ buffer' = [buffer EXCEPT ![c] = <<>>]
    /\ frame_count' = [frame_count EXCEPT ![c] = 0]
    /\ received' = [received EXCEPT ![c] = <<>>]
    /\ decoder_calls' = [decoder_calls EXCEPT ![c] = <<>>]
    /\ last' = Step(c, "stream-end", <<>>)
    /\ resp' = NoResponse
    /\ idle' = [idle EXCEPT ![c] = 0]
    /\ UNCHANGED <<srp, CRYPTO_AVAILABLE, running, listening, crypto, client_id, now,
                   step_failed, streams, sink_calls,
                   codec, reader, lock, thread>>

\* the stream loop ends (end of stream, read error, or running cleared):
\* the finally blocks run and the request loop resumes
StreamEnd(c) ==
    /\ conn[c] = "stream"
    /\ conn' = [conn EXCEPT ![c] = "open"]
    /\ streams' = remove_stream(streams, client_id[c])
    /\ active_connections' = active_connections \ {client_id[c]}
    /\ buffer' = [buffer EXCEPT ![c] = <<>>]
    /\ frame_count' = [frame_count EXCEPT ![c] = 0]
    /\ received' = [received EXCEPT ![c] = <<>>]
    /\ decoder_calls' = [decoder_calls EXCEPT ![c] = <<>>]
    /\ last' = Step(c, "stream-end", <<>>)
    /\ resp' = NoResponse
    /\ idle' = [idle EXCEPT ![c] = 0]
    /\ sink_calls' = [sink_calls EXCEPT ![c] = Append(@, "remove_stream")]
    /\ UNCHANGED <<srp, CRYPTO_AVAILABLE, running, listening, crypto, client_id, now,
                   step_failed,
                   codec, reader, lock, thread>>

\* one connection: its handshakes and its stream
Next ==
    \/ Start
    \/ Stop
    \/ \E c \in One : Accept(c)
    \/ \E c \in One : Close(c)
    \/ \E c \in One : PairSetup(c)
    \/ \E c \in One : PairVerify(c)
    \/ \E c \in One : Info(c)
    \/ \E c \in One : EmptyReply(c)
    \/ \E c \in One : NoPath(c)
    \/ \E c \in One : StreamStart(c)
    \/ \E c \in One : StreamChunk(c)
    \/ \E c \in One : StreamEnd(c)

Spec == Init /\ [][Next]_vars

\* two connections whose handshake requests interleave
NextConcurrent ==
    \/ Start
    \/ \E c \in Conns : Accept(c)
    \/ \E c \in Conns : Close(c)
    \/ \E c \in Conns : PairSetup(c)
    \/ \E c \in Conns : PairVerify(c)

SpecConcurrent == Init /\ [][NextConcurrent]_vars

----------------------------------------------------------------------------
(* The TLV8 codec on its own: calls of tlv8_encode and tlv8_decode *)

\* longest value handed to tlv8_encode: three full chunks and a few bytes
MaxValueLen == 770
\* most records in a buffer handed to tlv8_decode
MaxRecords == 3

\* everything but the codec call under study
receiverVars == <<srp, CRYPTO_AVAILABLE, running, listening, crypto, conn, client_id,
                  now, streams, active_connections, buffer, frame_count, last, resp,
                  step_failed, received, decoder_calls, idle, reader, lock, thread,
                  sink_calls>>

\* the type ids the calls are made with
TlvTypes == {0, 5, 255}

\* a value of n bytes in which neighbouring bytes differ and no two chunks of
\* 255 bytes are alike
Bytes(n) == [i \in 1..n |-> (7 * i) % 256]

\* records {type_id, value} a peer may put on the wire, empty values included
WireRecords == [type_id : {5, 6}, value : {<<>>, <<9>>, <<5, 1>>}]
RecordLists == UNION {[1..n -> WireRecords] : n \in 0..MaxRecords}

\* the bytes of a list of records: type, length, value each
RECURSIVE WireOf(_)
WireOf(records) ==
    IF records = <<>> THEN <<>>
    ELSE <<records[1].type_id, Len(records[1].value)>> \o records[1].value
             \o WireOf(Tail(records))

InitTlv == Init /\ srp /\ CRYPTO_AVAILABLE

\* tlv8_encode(type_id, value)
TlvEncode ==
    /\ codec.op = "none"
    /\ \E type_id \in TlvTypes, n \in 0..MaxValueLen :
          codec' = [op |-> "encode", type_id |-> type_id, value |-> Bytes(n),
                    wire |-> tlv8_encode(type_id, Bytes(n))]
    /\ UNCHANGED receiverVars

\* tlv8_decode of what tlv8_encode returned
TlvDecodeEncoded ==
    /\ codec.op = "encode"
    /\ codec' = [op |-> "round-trip", type_id |-> codec.type_id, value |-> codec.value,
                 wire |-> codec.wire, result |-> tlv8_decode(codec.wire)]
    /\ UNCHANGED receiverVars

\* tlv8_decode of the first `cut` bytes of a buffer of records
TlvDecodeRecords ==
    /\ codec.op = "none"
    /\ \E records \in RecordLists :
          \E cut \in 0..Len(WireOf(records)) :
              codec' = [op |-> "decode", records |-> records, cut |-> cut,
                        wire |-> Upto(WireOf(records), cut),
                        result |-> tlv8_decode(Upto(WireOf(records), cut))]
    /\ UNCHANGED receiverVars

NextTlv ==
    \/ TlvEncode
    \/ TlvDecodeEncoded
    \/ TlvDecodeRecords

SpecTlv == InitTlv /\ [][NextTlv]_vars

----------------------------------------------------------------------------
(* The stream loop on its own: one connection whose stream request was      *)
(* accepted, fed by a peer that sends H.264 units or marker-free bytes      *)

\* reader.read(8192): the most bytes one read returns
ReadSize == 8192
\* reads of ReadSize marker-free bytes the peer's bulk stream is followed for
\* (2 MiB)
MaxBulkReads == 256

\* units A and B of a stream: a few bytes each, a unit A that passes the
\* minimum frame size with a short unit B, and two such long units
UnitPairs == {<<Runs(<<101, 7>>), Runs(<<65, 9>>)>>,
              <<RunsFill(1021, 103), Runs(<<65, 9>>)>>,
              <<RunsFill(1021, 103), RunsFill(1021, 65)>>}

\* <marker><unit A><marker><unit B>
StreamOf(pair) ==
    RunsCat(RunsCat(RunsCat(Runs(Marker), pair[1]), Runs(Marker)), pair[2])
DemuxStreams == {StreamOf(pair) : pair \in UnitPairs}

\* one read of marker-free bytes
Bulk == RunsFill(ReadSize, 170)

\* What the next read can return, given the chunks read so far: the peer
\* sends one of the streams, which arrives in two chunks split at any byte,
\* or it sends marker-free bytes that arrive in full reads.
DemuxReads(rcv) ==
    IF rcv = <<>>
    THEN {Bulk} \cup UNION {{RunsUpto(s, k) : k \in 1..(RunsLen(s) - 1)} :
                              s \in DemuxStreams}
    ELSE IF rcv[1] = Bulk
    THEN IF Len(rcv) < MaxBulkReads THEN {Bulk} ELSE {}
    ELSE IF Len(rcv) = 1
    THEN {RunsFrom(s, RunsLen(rcv[1])) :
             s \in {t \in DemuxStreams : RunsLen(t) > RunsLen(rcv[1])
                                           /\ RunsUpto(t, RunsLen(rcv[1])) = rcv[1]}}
    ELSE {}

\* the receiver was started and accepted a connection, whose next request
\* is POST /stream
InitDemux ==
    /\ srp = TRUE
    /\ CRYPTO_AVAILABLE = TRUE
    /\ running = TRUE
    /\ listening = TRUE
    /\ crypto = AirPlayCrypto_init
    /\ conn = [c \in Conns |-> IF c \in One THEN "open" ELSE "closed"]
    /\ client_id = [c \in Conns |-> IF c \in One THEN <<PeerAddr, 0>> ELSE NoId]
    /\ now = 0
    /\ streams = EmptyDict
    /\ active_connections = {}
    /\ buffer = [c \in Conns |-> <<>>]
    /\ frame_count = [c \in Conns |-> 0]
    /\ last = Step(CHOOSE c \in One : TRUE, "accept", <<>>)
    /\ resp = NoResponse
    /\ step_failed = {}
    /\ received = [c \in Conns |-> <<>>]
    /\ decoder_calls = [c \in Conns |-> <<>>]
    /\ codec = NoCall
    /\ idle = [c \in Conns |-> 0]
    /\ reader = NoReader
    /\ lock = "free"
    /\ thread = [t \in Threads |-> IdleThread]
    /\ sink_calls = [c \in Conns |-> <<>>]

\* one iteration of the stream loop on what the peer's stream delivers next
StreamRead(c) ==
    \E data \in DemuxReads(received[c]) : Ingest(c, data)

NextDemux ==
    \/ \E c \in One : StreamRead(c)
    \/ \E c \in One : StreamEnd(c)
    \/ \E c \in One : StreamStart(c)

SpecDemux == InitDemux /\ [][NextDemux]_vars

----------------------------------------------------------------------------
(* The request loop under a clock: one connection and the seconds it waits  *)
(* for a request line                                                       *)

\* asyncio.wait_for(reader.readline(), timeout=30.0)
IdleLimit == 30
\* seconds the clock is followed for
MaxNow == 31

\* One second passes.  A connection waiting in readline has waited a second
\* longer; the wait of a connection cannot pass the timeout of its wait_for.
Tick ==
    /\ now < MaxNow
    /\ \A c \in Conns : conn[c] = "open" => idle[c] < IdleLimit
    /\ now' = now + 1
    /\ idle' = [c \in Conns |-> IF conn[c] = "open" THEN idle[c] + 1 ELSE idle[c]]
    /\ last' = Step("-", "tick", <<>>)
    /\ resp' = NoResponse
    /\ UNCHANGED <<srp, CRYPTO_AVAILABLE, running, listening, crypto, conn, client_id,
                   streams, active_connections, buffer, frame_count, step_failed,
                   received, decoder_calls, codec, reader, lock, thread, sink_calls>>

\* wait_for raises TimeoutError: the request loop breaks and the finally
\* block of _handle_client closes the writer
IdleTimeout(c) ==
    /\ conn[c] = "open"
    /\ idle[c] = IdleLimit
    /\ conn' = [conn EXCEPT ![c] = "closed"]
    /\ client_id' = [client_id EXCEPT ![c] = NoId]
    /\ step_failed' = step_failed \ {c}
    /\ idle' = [idle EXCEPT ![c] = 0]
    /\ last' = Step(c, "timeout", <<>>)
    /\ resp' = NoResponse
    /\ UNCHANGED <<srp, CRYPTO_AVAILABLE, running, listening, crypto, now, streams,
                   active_connections, buffer, frame_count,
                   received, decoder_calls, codec, reader, lock, thread, sink_calls>>

NextIdle ==
    \/ Tick
    \/ \E c \in One : IdleTimeout(c)
    \/ \E c \in One : Accept(c)
    \/ \E c \in One : EmptyReply(c)
    \/ \E c \in One : StreamStart(c)
    \/ \E c \in One : StreamEnd(c)

SpecIdle == InitDemux /\ [][NextIdle]_vars

----------------------------------------------------------------------------
(* The request framing of _handle_client on its own: the bytes of a peer's  *)
(* requests reach the StreamReader in pieces, and the loop reads requests   *)
(* from what has arrived                                                    *)

\* requests the peer sends back to back
MaxRequests == 2

\* b"POST /pair-verify HTTP/1.1", b"Content-Length", 'content-length',
\* b"POST", b"GET", b"\r\n"
RequestLine == <<80, 79, 83, 84, 32, 47, 112, 97, 105, 114, 45, 118, 101, 114, 105, 102, 121, 32, 72, 84, 84, 80, 47, 49, 46, 49>>
ContentLengthName == <<67, 111, 110, 116, 101, 110, 116, 45, 76, 101, 110, 103, 116, 104>>
content_length_key == <<99, 111, 110, 116, 101, 110, 116, 45, 108, 101, 110, 103, 116, 104>>
POST == <<80, 79, 83, 84>>
GET == <<71, 69, 84>>
CRLF == <<13, 10>>

\* str(n).encode(), n >= 0
RECURSIVE Digits(_)
Digits(n) == IF n < 10 THEN <<48 + n>> ELSE Digits(n \div 10) \o <<48 + (n % 10)>>

\* the bytes of one request: request line, Content-Length header, blank
\* line, body
RequestBytes(body) ==
    RequestLine \o CRLF \o ContentLengthName \o <<58, 32>> \o Digits(Len(body)) \o CRLF
        \o CRLF \o body

\* the bodies the peer sends: none, a pair-verify state-3 attribute
FramedBodies == {<<>>, tlv8_encode(6, <<3>>)}
SentRequests == UNION {[1..n -> FramedBodies] : n \in 1..MaxRequests}

RECURSIVE SentBytes(_)
SentBytes(bodies) ==
    IF bodies = <<>> THEN <<>> ELSE RequestBytes(bodies[1]) \o SentBytes(Tail(bodies))

\* str.strip(), str.lower() on ASCII text
Whitespace == {9, 10, 11, 12, 13, 32}
RECURSIVE lstrip(_)
lstrip(text) == IF text # <<>> /\ text[1] \in Whitespace THEN lstrip(Tail(text)) ELSE text
RECURSIVE rstrip(_)
rstrip(text) ==
    IF text # <<>> /\ text[Len(text)] \in Whitespace
    THEN rstrip(SubSeq(text, 1, Len(text) - 1)) ELSE text
strip(text) == rstrip(lstrip(text))
lower(text) ==
    [i \in 1..Len(text) |-> IF text[i] >= 65 /\ text[i] <= 90 THEN text[i] + 32 ELSE text[i]]

\* 1-based index of the first byte b in text, 0 when there is none
IndexOfByte(text, b) ==
    IF \E i \in 1..Len(text) : text[i] = b
    THEN CHOOSE i \in 1..Len(text) : text[i] = b /\ \A j \in 1..(i - 1) : text[j] # b
    ELSE 0

\* sub in text
Contains(text, sub) ==
    \E i \in 0..(Len(text) - Len(sub)) : SubSeq(text, i + 1, i + Len(sub)) = sub

\* int(text) of a text of decimal digits (anything else raises ValueError
\* in the texts of this model)
IsDigits(text) == text # <<>> /\ \A i \in 1..Len(text) : text[i] \in 48..57
RECURSIVE int(_)
int(text) ==
    IF text = <<>> THEN 0
    ELSE 10 * int(SubSeq(text, 1, Len(text) - 1)) + (text[Len(text)] - 48)

\* the body of the header loop for one header line: content_length after it
header_line(line, content_length) ==
    LET text  == strip(line)
        colon == IndexOfByte(text, 58)
    IN  IF colon = 0 THEN content_length
        ELSE IF lower(strip(Upto(text, colon - 1))) = content_length_key
                  /\ IsDigits(strip(From(text, colon)))
             THEN int(strip(From(text, colon)))
             ELSE content_length

\* The header loop on the buffered bytes buf: it ends at the blank line;
\* complete = FALSE when the bytes end before it (the loop waits).
RECURSIVE read_headers(_, _)
read_headers(buf, content_length) ==
    LET i == IndexOfByte(buf, 10)
    IN  IF i = 0
        THEN [complete |-> FALSE, content_length |-> content_length, rest |-> buf]
        ELSE IF Upto(buf, i) = CRLF \/ Upto(buf, i) = <<10>>
             THEN [complete |-> TRUE, content_length |-> content_length,
                   rest |-> From(buf, i)]
             ELSE read_headers(From(buf, i), header_line(Upto(buf, i), content_length))

\* reader.read(n), n > 0, on the buffered bytes: what is there, n at most
read(buf, n) == Upto(buf, n)

\* One pass of the request loop over the buffered bytes buf.  ready = FALSE
\* when one of its reads would wait for more bytes; else the request line,
\* the content length, the body handed to the handler, the bytes left in the
\* reader, and whether the loop breaks (empty line, or no POST/GET in it).
read_request(buf) ==
    LET i       == IndexOfByte(buf, 10)
        request == strip(Upto(buf, i))
        h       == read_headers(From(buf, i), 0)
        body    == IF h.content_length > 0 THEN read(h.rest, h.content_length) ELSE <<>>
        waits   == [ready |-> FALSE, request |-> <<>>, content_length |-> 0,
                    body |-> <<>>, rest |-> buf, breaks |-> FALSE]
    IN  IF i = 0 THEN waits
        ELSE IF request = <<>>
        THEN [ready |-> TRUE, request |-> request, content_length |-> 0,
              body |-> <<>>, rest |-> From(buf, i), breaks |-> TRUE]
        ELSE IF ~h.complete \/ (h.content_length > 0 /\ h.rest = <<>>) THEN waits
        ELSE [ready |-> TRUE, request |-> request, content_length |-> h.content_length,
              body |-> body, rest |-> From(h.rest, Len(body)),
              breaks |-> ~(Contains(request, POST) \/ Contains(request, GET))]

dispatcherVars == <<srp, CRYPTO_AVAILABLE, running, listening, crypto, conn, client_id,
                    now, streams, active_connections, buffer, frame_count, last, resp,
                    step_failed, received, decoder_calls, codec, idle, lock, thread,
                    sink_calls>>

\* the peer sends its requests
ReaderSend ==
    /\ reader.op = "none"
    /\ \E bodies \in SentRequests :
          reader' = [op |-> "open", sent |-> bodies, in_flight |-> SentBytes(bodies),
                     buf |-> <<>>, requests |-> <<>>]
    /\ UNCHANGED dispatcherVars

\* the transport delivers the next piece, of any size
ReaderArrive ==
    /\ reader.op = "open"
    /\ \E k \in 1..Len(reader.in_flight) :
          reader' = [reader EXCEPT !.in_flight = From(@, k),
                                   !.buf = @ \o Upto(reader.in_flight, k)]
    /\ UNCHANGED dispatcherVars

\* one pass of the request loop: request line, headers and body are read
\* and the request is handed to the handler
ReaderRequest ==
    /\ reader.op = "open"
    /\ \E r \in {read_request(reader.buf)} :
          /\ r.ready
          /\ reader' = [reader EXCEPT
                           !.op = IF r.breaks THEN "closed" ELSE "open",
                           !.buf = r.rest,
                           !.requests = Append(@, [request |-> r.request,
                                                   content_length |-> r.content_length,
                                                   body |-> r.body])]
    /\ UNCHANGED dispatcherVars

NextFraming ==
    \/ ReaderSend
    \/ ReaderArrive
    \/ ReaderRequest

SpecFraming == InitDemux /\ [][NextFraming]_vars

----------------------------------------------------------------------------
(* The registry shared with the WebRTC server: two AirPlay connections of   *)
(* one peer and the WebRTC clients that fill the registry                   *)

\* chunks one stream is followed for
MaxFeeds == 1

\* the client_id of the k-th WebRTC client
WebRtcId(k) == <<"webrtc", k>>

\* number of WebRTC clients registered
WebRtcCount == Cardinality({id \in DOMAIN streams : id[1] = "webrtc"})

\* a "503" response
Unavailable == [status |-> 503, content_length |-> -1, body |-> <<>>]

\* WebRTCServer._handle_offer up to its first return: the next WebRTC client
\* is registered, or refused with 503 when add_stream returns False
Offer ==
    /\ WebRtcCount <= max_streams
    /\ \E r \in {add_stream(streams, WebRtcId(WebRtcCount + 1), "name")} :
          /\ streams' = r.streams
          /\ resp' = IF r.ok THEN Response(-1, <<>>) ELSE Unavailable
    /\ last' = Step("-", "offer", <<>>)
    /\ UNCHANGED <<srp, CRYPTO_AVAILABLE, running, listening, crypto, conn, client_id,
                   now, active_connections, buffer, frame_count, step_failed,
                   received, decoder_calls, codec, idle, reader, lock, thread,
                   sink_calls>>

\* the peer connection of the last WebRTC client fails or closes
Hangup ==
    /\ WebRtcCount > 0
    /\ streams' = remove_stream(streams, WebRtcId(WebRtcCount))
    /\ last' = Step("-", "hangup", <<>>)
    /\ resp' = NoResponse
    /\ UNCHANGED <<srp, CRYPTO_AVAILABLE, running, listening, crypto, conn, client_id,
                   now, active_connections, buffer, frame_count, step_failed,
                   received, decoder_calls, codec, idle, reader, lock, thread,
                   sink_calls>>

\* the chunk fed to a stream: a whole unit of 1021 bytes and the start of
\* the next one
SinkChunks == {StreamOf(<<RunsFill(1021, 103), Runs(<<65, 9>>)>>)}

\* one iteration of the stream loop on such a chunk
StreamFeed(c) ==
    /\ Len(received[c]) < MaxFeeds
    /\ \E data \in SinkChunks : Ingest(c, data)

NextSink ==
    \/ Offer
    \/ Hangup
    \/ \E c \in Conns : Accept(c)
    \/ \E c \in Conns : Close(c)
    \/ \E c \in Conns : StreamStart(c)
    \/ \E c \in Conns : StreamFeed(c)
    \/ \E c \in Conns : StreamEnd(c)

SpecSink == InitDemux /\ [][NextSink]_vars

----------------------------------------------------------------------------
(* StreamManager under its lock: two threads whose calls of add_stream,     *)
(* update_frame and remove_stream interleave statement by statement         *)

\* streams one thread registers at most
MaxOwn == 5

\* everything but the registry, its lock and the threads calling it
callerVars == <<srp, CRYPTO_AVAILABLE, running, listening, crypto, conn, client_id,
                now, active_connections, buffer, frame_count, last, resp,
                step_failed, received, decoder_calls, codec, idle, reader,
                sink_calls>>

\* the client_ids of thread t, and how many of them are registered
OwnId(t, k) == <<t, k>>
Own(t) == Cardinality({id \in DOMAIN streams : id[1] = t})

\* the capacity test of add_stream letting one entry too many in
at_capacity_off_by_one(reg) == Cardinality(DOMAIN reg) > max_streams

\* len(self.streams) >= self.max_streams
at_capacity(reg) == Cardinality(DOMAIN reg) >= max_streams

\* A thread calls the StreamManager: add_stream for its next stream,
\* update_frame for its first one, remove_stream for its last one (for a
\* stream that is not registered when it has none).
RegistryCall(t) ==
    /\ thread[t].pc = "idle"
    /\ \E op \in {"add_stream", "update_frame", "remove_stream"} :
          /\ op = "add_stream" => Own(t) < MaxOwn
          /\ thread' = [thread EXCEPT ![t] =
                           [pc |-> "acquire", op |-> op, ret |-> "None",
                            id |-> IF op = "add_stream" THEN OwnId(t, Own(t) + 1)
                                   ELSE IF op = "update_frame" \/ Own(t) = 0
                                        THEN OwnId(t, 1)
                                        ELSE OwnId(t, Own(t))]]
    /\ UNCHANGED <<callerVars, streams, lock>>

\* "with self.lock" entered although another thread holds the lock
RegistryAcquire_ignores_lock(t) ==
    /\ thread[t].pc = "acquire"
    /\ lock' = t
    /\ thread' = [thread EXCEPT ![t].pc =
                     IF thread[t].op = "add_stream" THEN "check"
                     ELSE IF thread[t].op = "update_frame" THEN "update" ELSE "remove"]
    /\ UNCHANGED <<callerVars, streams>>

\* "with self.lock": the thread enters when the lock is free
RegistryAcquire(t) ==
    /\ thread[t].pc = "acquire"
    /\ lock = "free"
    /\ lock' = t
    /\ thread' = [thread EXCEPT ![t].pc =
                     IF thread[t].op = "add_stream" THEN "check"
                     ELSE IF thread[t].op = "update_frame" THEN "update" ELSE "remove"]
    /\ UNCHANGED <<callerVars, streams>>

\* add_stream: the capacity test; at capacity the call returns False
RegistryCheck(t) ==
    /\ thread[t].pc = "check"
    /\ thread' = [thread EXCEPT ![t] =
                     IF at_capacity(streams)
                     THEN [@ EXCEPT !.pc = "release", !.ret = "False"]
                     ELSE [@ EXCEPT !.pc = "insert"]]
    /\ UNCHANGED <<callerVars, streams, lock>>

\* add_stream: self.streams[client_id] = {...}; return True
RegistryInsert(t) ==
    /\ thread[t].pc = "insert"
    /\ streams' = [k \in DOMAIN streams \cup {thread[t].id} |->
                      IF k = thread[t].id THEN "placeholder" ELSE streams[k]]
    /\ thread' = [thread EXCEPT ![t].pc = "release", ![t].ret = "True"]
    /\ UNCHANGED <<callerVars, lock>>

\* update_frame: the frame is stored if the stream is registered
RegistryUpdate(t) ==
    /\ thread[t].pc = "update"
    /\ streams' = update_stream(streams, thread[t].id, "frame")
    /\ thread' = [thread EXCEPT ![t].pc = "release"]
    /\ UNCHANGED <<callerVars, lock>>

\* remove_stream deleting without the membership test: del raises KeyError
\* for a stream that is not registered, and the with block is left
RegistryRemove_unguarded(t) ==
    /\ thread[t].pc = "remove"
    /\ streams' = remove_stream(streams, thread[t].id)
    /\ thread' = [thread EXCEPT ![t].pc = "release",
                                ![t].ret = IF thread[t].id \in DOMAIN streams
                                           THEN "None" ELSE "KeyError"]
    /\ UNCHANGED <<callerVars, lock>>

\* remove_stream: the stream is deleted if it is registered
RegistryRemove(t) ==
    /\ thread[t].pc = "remove"
    /\ streams' = remove_stream(streams, thread[t].id)
    /\ thread' = [thread EXCEPT ![t].pc = "release"]
    /\ UNCHANGED <<callerVars, lock>>

\* the with block is left: the lock is released and the call returns
RegistryRelease(t) ==
    /\ thread[t].pc = "release"
    /\ lock' = "free"
    /\ thread' = [thread EXCEPT ![t] = IdleThread]
    /\ UNCHANGED <<callerVars, streams>>

NextRegistry ==
    \/ \E t \in Threads : RegistryCall(t)
    \/ \E t \in Threads : RegistryAcquire(t)
    \/ \E t \in Threads : RegistryCheck(t)
    \/ \E t \in Threads : RegistryInsert(t)
    \/ \E t \in Threads : RegistryUpdate(t)
    \/ \E t \in Threads : RegistryRemove(t)
    \/ \E t \in Threads : RegistryRelease(t)

SpecRegistry == InitDemux /\ [][NextRegistry]_vars

----------------------------------------------------------------------------
(* pair-verify with clients of different Curve25519 keys *)

\* Ed25519 key pairs generated in these runs
MaxVerifyKeys == 3

\* the Curve25519 public keys of two clients
VerifyKeys == {Fill(32, 11), Fill(32, 12)}

\* POST /pair-verify: state 1 with a client's public key, or state 3
VerifyRequest(c) ==
    /\ conn[c] = "open"
    /\ Route("POST", "/pair-verify") = "pair-verify"
    /\ \E body \in {tlv8_encode(6, <<1>>) \o tlv8_encode(3, k) : k \in VerifyKeys}
                     \cup {tlv8_encode(6, <<3>>) \o tlv8_encode(5, Fill(20, 1))} :
          \E lib \in IF StateOf(body) = 1
                     THEN {"ok", "shared_raise", "sign_raise", "encrypt_raise"}
                     ELSE {"ok"} :
              LET r == pair_verify(crypto, body, lib)
              IN  /\ KeyGen(r.crypto) <= MaxVerifyKeys
                  /\ Handshake(c, "pair-verify", body, r)

NextVerify ==
    \/ \E c \in Conns : Accept(c)
    \/ \E c \in Conns : Close(c)
    \/ \E c \in Conns : VerifyRequest(c)

SpecVerify == InitDemux /\ [][NextVerify]_vars

----------------------------------------------------------------------------
(* The stream loop fed a stream of three units, two of them over the        *)
(* minimum frame size                                                       *)

\* one-byte reads that follow the stream
MaxTailReads == 1

\* the units of the stream, in the order the peer sends them
UnitsOfStream == <<RunsFill(1021, 103), RunsFill(1021, 65), Runs(<<66, 8>>)>>

\* <marker><unit 1><marker><unit 2><marker><unit 3>
UnitStream ==
    RunsCat(StreamOf(<<UnitsOfStream[1], UnitsOfStream[2]>>),
            RunsCat(Runs(Marker), UnitsOfStream[3]))

\* a further byte of the last unit
TailChunk == Runs(<<67>>)

\* the chunks read so far, as one byte string
RECURSIVE Joined(_)
Joined(chunks) ==
    IF chunks = <<>> THEN <<>>
    ELSE IF Len(chunks) = 1 THEN chunks[1]
    ELSE RunsCat(Joined(SubSeq(chunks, 1, Len(chunks) \div 2)),
                 Joined(SubSeq(chunks, Len(chunks) \div 2 + 1, Len(chunks))))

\* What the next read can return: the stream arrives whole in one read or in
\* two reads split at any byte, and single bytes follow it.
UnitsReads(rcv) ==
    LET got == RunsLen(Joined(rcv))
    IN  IF got = 0
        THEN {RunsUpto(UnitStream, k) : k \in 1..RunsLen(UnitStream)}
        ELSE IF got < RunsLen(UnitStream)
        THEN {RunsFrom(UnitStream, got)}
        ELSE IF got < RunsLen(UnitStream) + MaxTailReads
        THEN {TailChunk}
        ELSE {}

\* one iteration of the stream loop on what the peer's stream delivers next
UnitsRead(c) ==
    \E data \in UnitsReads(received[c]) : Ingest(c, data)

NextUnits ==
    \/ \E c \in One : StreamStart(c)
    \/ \E c \in One : UnitsRead(c)
    \/ \E c \in One : StreamEnd(c)

SpecUnits == InitDemux /\ [][NextUnits]_vars

----------------------------------------------------------------------------
(* The stream loop fed a read of many small units, which a unit of more     *)
(* than 1 MiB follows                                                       *)

\* small units the first read carries
MaxSmallUnits == 130
\* reads the stream is followed for
MaxBacklogReads == 129

\* n times <marker><byte 01>: 00 00 00 01 01, two runs each
SmallUnits(n) == [i \in 1..(2 * n) |-> IF i % 2 = 1 THEN <<0, 3>> ELSE <<1, 2>>]

\* the first read: the small units, then the marker and the first bytes of
\* the long unit, ReadSize bytes in all
BacklogFirst ==
    RunsCat(RunsCat(SmallUnits(MaxSmallUnits), Runs(Marker)),
            RunsFill(ReadSize - 5 * MaxSmallUnits - 4, 170))

\* what the next read returns: the first read, then the long unit in full
\* reads
BacklogReads(rcv) ==
    IF rcv = <<>> THEN {BacklogFirst}
    ELSE IF Len(rcv) < MaxBacklogReads THEN {Bulk} ELSE {}

\* one iteration of the stream loop on the next read, with a decoder that
\* has no codec: decode_frame returns None
BacklogRead(c) ==
    \E data \in BacklogReads(received[c]) :
        /\ Ingest(c, data)
        /\ \A i \in 1..Len(decoder_calls'[c]) : decoder_calls'[c][i].frame = "None"

NextBacklog ==
    \/ \E c \in One : StreamStart(c)
    \/ \E c \in One : BacklogRead(c)
    \/ \E c \in One : StreamEnd(c)

SpecBacklog == InitDemux /\ [][NextBacklog]_vars

----------------------------------------------------------------------------
(* stop() while streams are being received *)

\* POST /stream while the receiver runs: the stream loop is entered
StreamRunning(c) == running /\ StreamStart(c)

\* POST /stream after stop(): the reply is written and the stream is
\* registered, the loop condition is false at once, and the finally blocks
\* unregister the stream with no await in between
StreamStopped(c) ==
    /\ ~running
    /\ conn[c] = "open"
    /\ Route("POST", "/stream") = "stream"
    /\ streams' = remove_stream(add_stream(streams, client_id[c], "placeholder").streams,
                                client_id[c])
    /\ active_connections' = active_connections \ {client_id[c]}
    /\ last' = Step(c, "stream-stopped", <<>>)
    /\ resp' = Response(-1, <<>>)
    /\ idle' = [idle EXCEPT ![c] = 0]
    /\ sink_calls' = [sink_calls EXCEPT ![c] = <<"add_stream", "remove_stream">>]
    /\ UNCHANGED <<srp, CRYPTO_AVAILABLE, running, listening, crypto, conn, client_id,
                   now, buffer, frame_count, step_failed, received, decoder_calls,
                   codec, reader, lock, thread>>

\* the stream ends while the receiver runs: the peer closed it, or the read
\* raised
PeerEnd(c) == running /\ StreamEnd(c)

\* the exit that never comes while the peer is silent: the loop condition
\* is looked at only when a read has returned data
LoopExit_after_data_only(c) == ~running /\ last.op = "chunk" /\ StreamEnd(c)

\* the loop condition is found false: the read returned, or timed out after
\* one second, and "while self.running" ends the loop
LoopExit(c) == ~running /\ StreamEnd(c)

NextStop ==
    \/ Stop
    \/ \E c \in Conns : Accept(c)
    \/ \E c \in Conns : Close(c)
    \/ \E c \in Conns : StreamRunning(c)
    \/ \E c \in Conns : StreamStopped(c)
    \/ \E c \in Conns : StreamFeed(c)
    \/ \E c \in Conns : PeerEnd(c)
    \/ \E c \in Conns : LoopExit(c)

\* every read of the loop returns within a second (wait_for, timeout=1.0),
\* so a loop that can leave does leave
SpecStop ==
    InitDemux /\ [][NextStop]_vars /\ \A c \in Conns : WF_vars(LoopExit(c))

----------------------------------------------------------------------------
(* StreamManager called by two threads for the same streams *)

\* the streams both threads register, feed and unregister
SharedIds == {WebRtcId(1), WebRtcId(2)}

\* a thread calls add_stream, update_frame or remove_stream for one of them
SharedCall(t) ==
    /\ thread[t].pc = "idle"
    /\ \E op \in {"add_stream", "update_frame", "remove_stream"}, id \in SharedIds :
          thread' = [thread EXCEPT ![t] =
                        [pc |-> "acquire", op |-> op, ret |-> "None", id |-> id]]
    /\ UNCHANGED <<callerVars, streams, lock>>

NextShared ==
    \/ \E t \in Threads : SharedCall(t)
    \/ \E t \in Threads : RegistryAcquire(t)
    \/ \E t \in Threads : RegistryCheck(t)
    \/ \E t \in Threads : RegistryInsert(t)
    \/ \E t \in Threads : RegistryUpdate(t)
    \/ \E t \in Threads : RegistryRemove(t)
    \/ \E t \in Threads : RegistryRelease(t)

SpecShared == InitDemux /\ [][NextShared]_vars

----------------------------------------------------------------------------
(* Properties *)

\* the attributes of the last request body, as the handlers decode it
Req == IF last.body # <<>> THEN tlv8_decode(last.body) ELSE EmptyDict

\* the attributes of the last response
Rsp == tlv8_decode(resp.body)

SetupStep(state)  == last.op = "pair-setup" /\ StateOf(last.body) = state
VerifyStep(state) == last.op = "pair-verify" /\ StateOf(last.body) = state

\* the response carries attribute t with value v
RspHas(t, v) == resp.status = 200 /\ t \in DOMAIN Rsp /\ Rsp[t] = v

\* the client proof of the last request matches the session key: there is an
\* SRP session and the proof is the one that belongs to the public key
ProofMatchesSession ==
    /\ srp
    /\ crypto.srp_session # None
    /\ ProofMatches(Get(Req, 3, <<>>), Get(Req, 4, <<>>))

\* the confirmation blob of a request decrypts and verifies under the
\* session's shared secret
BlobVerifies(cr, body) ==
    /\ CRYPTO_AVAILABLE
    /\ cr.shared_secret # None
    /\ ChaCha20Poly1305_decrypt(DecryptionKeyOf(cr.shared_secret),
                                Get(tlv8_decode(body), 5, <<>>)).ok

\* C1: a pair-setup state-3 request whose proof does not match the session
\* key is answered with state 4 and error 2, and never with a proof.
C1_MismatchIsRejected ==
    (SetupStep(3) /\ ~ProofMatchesSession)
        => (RspHas(6, <<4>>) /\ RspHas(7, <<2>>) /\ 4 \notin DOMAIN Rsp)

\* C2: a pair-verify state-3 step whose confirmation blob does not verify is
\* answered with state 4 and error 1 and does not make the session Paired.
C2_PairedOnlyIfVerified ==
    [][(last'.op = "pair-verify" /\ StateOf(last'.body) = 3
            /\ ~BlobVerifies(crypto, last'.body))
         => (/\ resp'.status = 200
             /\ tlv8_decode(resp'.body)[6] = <<4>>
             /\ Get(tlv8_decode(resp'.body), 7, <<>>) = <<1>>
             /\ (crypto'.is_paired => crypto.is_paired))]_vars

\* the session state a request of connection c reads and writes
SessionOf(c) ==
    [is_paired |-> crypto.is_paired, srp_session |-> crypto.srp_session,
     srp_key |-> crypto.srp_key, shared_secret |-> crypto.shared_secret,
     encryption_key |-> crypto.encryption_key,
     decryption_key |-> crypto.decryption_key]

\* C3: the session state seen by a connection is changed only by that
\* connection's own requests, never by a request handled for another one.
C3_SessionsIsolated ==
    [][\A a \in Conns :
          (conn[a] = "open" /\ last'.conn \in Conns \ {a})
              => SessionOf(a)' = SessionOf(a)]_vars

\* the last handshake request carries a state attribute outside {1, 3}
UnknownState ==
    /\ last.op \in {"pair-setup", "pair-verify"}
    /\ 6 \in DOMAIN Req
    /\ (Req[6] = <<>> \/ Req[6][1] \notin {1, 3})

\* C4: a handshake request whose state is outside {1,3} (an empty state
\* value included) is answered with state+1 and error 1, and the connection
\* stays open.
C4_UnknownStateAnswered ==
    UnknownState
        => (/\ RspHas(7, <<1>>)
            /\ (Req[6] # <<>> => RspHas(6, <<Req[6][1] + 1>>))
            /\ conn[last.conn] = "open")

\* C5: every pair-setup state-1 request is answered with state 2, a 16-byte
\* salt and a non-empty public key.
C5_SetupChallenge ==
    SetupStep(1)
        => (/\ RspHas(6, <<2>>)
            /\ resp.content_length = Len(resp.body)
            /\ 2 \in DOMAIN Rsp /\ Len(Rsp[2]) = 16
            /\ 3 \in DOMAIN Rsp /\ Len(Rsp[3]) > 0)

\* a state-1 pair-setup answered after an earlier setup had already succeeded
C5_Witness ==
    SetupStep(1) /\ crypto.srp_key # None /\ resp.status = 200

\* C6: every pair-verify state-1 request is answered with state 2, a 32-byte
\* public key and a non-empty encrypted blob; afterwards the encrypt-direction
\* and decrypt-direction keys of the session's shared secret are different.
C6_VerifyChallenge ==
    VerifyStep(1)
        => (/\ RspHas(6, <<2>>)
            /\ 3 \in DOMAIN Rsp /\ Len(Rsp[3]) = 32
            /\ 5 \in DOMAIN Rsp /\ Len(Rsp[5]) > 0
            /\ crypto.shared_secret # None
                 => (/\ EncryptionKeyOf(crypto.shared_secret)
                          # DecryptionKeyOf(crypto.shared_secret)
                     /\ EncryptionKeyUsed(crypto) # DecryptionKeyUsed(crypto)))

\* a state-1 pair-verify that derived a shared secret and an encryption key
C6_Witness ==
    VerifyStep(1) /\ crypto.shared_secret # None /\ crypto.encryption_key # None

\* s ends with the non-empty byte string t
EndsWith(s, t) ==
    /\ t # <<>>
    /\ Len(s) >= Len(t)
    /\ From(s, Len(s) - Len(t)) = t

\* C7: in a Paired session a decryption key exists when a stream chunk is
\* ingested, and the raw chunk bytes do not reach the buffer.
C7_PairedStreamIsDecrypted ==
    (last.op = "chunk" /\ crypto.is_paired)
        => (/\ crypto.decryption_key # None
            /\ ~EndsWith(BytesOf(buffer[last.conn]), BytesOf(last.body)))

\* how far the handshakes of the session have come
PairingRank(cr) ==
    IF cr.is_paired THEN 4
    ELSE IF cr.shared_secret # None THEN 3
    ELSE IF cr.srp_key # None THEN 2
    ELSE IF cr.srp_session # None THEN 1
    ELSE 0

\* C8: the pairing state only moves forward, and once a handshake step of a
\* session has failed no later request of that session makes it Paired.
C8_ForwardAndFailedAbsorbing ==
    [][/\ PairingRank(crypto') >= PairingRank(crypto)
       /\ \A c \in Conns :
             (c \in step_failed /\ last'.conn = c)
                 => ~(crypto'.is_paired /\ ~crypto.is_paired)]_vars

\* C9: an encryption or decryption key is present only if the shared secret
\* has been set.
C9_KeysNeedSharedSecret ==
    (crypto.encryption_key # None \/ crypto.decryption_key # None)
        => crypto.shared_secret # None

\* a Paired session that holds a transport key
C9_Witness ==
    crypto.is_paired /\ crypto.encryption_key # None

\* the last handshake request lacks an attribute its step expects
MissingExpected ==
    /\ last.op \in {"pair-setup", "pair-verify"}
    /\ \/ 6 \notin DOMAIN Req
       \/ SetupStep(3) /\ (3 \notin DOMAIN Req \/ 4 \notin DOMAIN Req)
       \/ VerifyStep(1) /\ 3 \notin DOMAIN Req
       \/ VerifyStep(3) /\ 5 \notin DOMAIN Req

\* C10: a handshake request that lacks an attribute its step expects is
\* answered with an error attribute.
C10_MissingAttributeIsError ==
    MissingExpected => (resp.status = 200 /\ 7 \in DOMAIN Rsp)

\* C11: decoding what tlv8_encode made of (type_id, value) gives a mapping in
\* which type_id is mapped to exactly value, the empty value included.
C11_RoundTrip ==
    codec.op = "round-trip"
        => (/\ codec.type_id \in DOMAIN codec.result
            /\ codec.result[codec.type_id] = codec.value)

\* C12: tlv8_encode of a zero-length value emits the two bytes type_id, 0.
C12_EmptyValueOneRecord ==
    (codec.op = "encode" /\ codec.value = <<>>)
        => codec.wire = <<codec.type_id, 0>>

\* number of records the claim gives a value of n bytes: ceil(n / 255)
RecordCount(n) == (n + 254) \div 255

\* C13: tlv8_encode of a value of n > 0 bytes emits ceil(n/255) records of the
\* given type_id, all but the last of 255 bytes, holding the value's bytes in
\* their order.
C13_Chunking ==
    (codec.op = "encode" /\ codec.value # <<>>)
        => LET n == Len(codec.value)
               k == RecordCount(n)
           IN  /\ Len(codec.wire) = n + 2 * k
               /\ \A j \in 0..(k - 1) :
                     LET size == IF j < k - 1 THEN 255 ELSE n - 255 * (k - 1)
                     IN  /\ codec.wire[257 * j + 1] = codec.type_id
                         /\ codec.wire[257 * j + 2] = size
                         /\ SubSeq(codec.wire, 257 * j + 3, 257 * j + 2 + size)
                              = SubSeq(codec.value, 255 * j + 1, 255 * j + size)

\* a 600-byte value of type 5 encoded as records of 255, 255 and 90 bytes
C13_Witness ==
    /\ codec.op = "encode" /\ codec.type_id = 5 /\ Len(codec.value) = 600
    /\ Len(codec.wire) = 606
    /\ codec.wire[2] = 255 /\ codec.wire[259] = 255 /\ codec.wire[516] = 90

\* the values of the records of type t, concatenated in their order
RECURSIVE ValuesOf(_, _)
ValuesOf(records, t) ==
    IF records = <<>> THEN <<>>
    ELSE (IF records[1].type_id = t THEN records[1].value ELSE <<>>)
             \o ValuesOf(Tail(records), t)

\* the mapping a list of records stands for
MappingOf(records) ==
    [t \in {records[i].type_id : i \in DOMAIN records} |-> ValuesOf(records, t)]

\* the records that lie wholly within the first `cut` bytes
CompleteRecords(records, cut) ==
    LET fits == {k \in 0..Len(records) : Len(WireOf(SubSeq(records, 1, k))) <= cut}
    IN  SubSeq(records, 1, CHOOSE k \in fits : \A m \in fits : m <= k)

\* C14: tlv8_decode of a buffer cut anywhere returns the mapping of the
\* records that were complete before the cut.
C14_TruncationIsSilent ==
    codec.op = "decode"
        => codec.result = MappingOf(CompleteRecords(codec.records, codec.cut))

\* a buffer cut inside its last record after two complete ones
C14_Witness ==
    /\ codec.op = "decode"
    /\ Len(codec.records) = 3
    /\ Len(CompleteRecords(codec.records, codec.cut)) = 2
    /\ codec.cut > Len(WireOf(SubSeq(codec.records, 1, 2)))
    /\ codec.result # EmptyDict

\* C15: in an uncut buffer each type_id is mapped to the concatenation, in
\* encounter order, of the values of all its records.
C15_SameTypeConcatenated ==
    (codec.op = "decode" /\ codec.cut = Len(WireOf(codec.records)))
        => /\ DOMAIN codec.result = {codec.records[i].type_id : i \in DOMAIN codec.records}
           /\ \A t \in DOMAIN codec.result : codec.result[t] = ValuesOf(codec.records, t)

\* two records of type 5 with a record of type 6 between them
C15_Witness ==
    /\ codec.op = "decode" /\ codec.cut = Len(WireOf(codec.records))
    /\ Len(codec.records) = 3
    /\ codec.records[1] = [type_id |-> 5, value |-> <<9>>]
    /\ codec.records[2].type_id = 6
    /\ codec.records[3] = [type_id |-> 5, value |-> <<5, 1>>]
    /\ codec.result[5] = <<9, 5, 1>>

\* C17: after each chunk the retained demux buffer holds at most 1 MiB.
C17_BufferCapped ==
    \A c \in Conns : RunsLen(buffer[c]) <= 1048576

\* 2 MiB of marker-free bytes were read and the buffer is at its cap
C17_Witness ==
    \E c \in Conns :
        /\ Len(received[c]) = 256
        /\ \A i \in DOMAIN received[c] : RunsLen(received[c][i]) = 8192
        /\ RunsLen(buffer[c]) = 1048576

\* the decoder was handed exactly the unit u, with or without its marker
IsUnit(nal_data, u) == nal_data = u \/ nal_data = RunsCat(Runs(Marker), u)

\* C16: when <marker><unit A><marker><unit B> has arrived in two chunks, the
\* decoder has been called with exactly unit A first, and with exactly unit
\* B if it was called again (unit B may still wait for what ends it).
C16_UnitsAcrossChunks ==
    \A c \in Conns : \A pair \in UnitPairs :
        (/\ Len(received[c]) = 2
         /\ RunsCat(received[c][1], received[c][2]) = StreamOf(pair))
            => /\ Len(decoder_calls[c]) \in {1, 2}
               /\ IsUnit(decoder_calls[c][1].nal_data, pair[1])
               /\ Len(decoder_calls[c]) = 2
                    => IsUnit(decoder_calls[c][2].nal_data, pair[2])

\* the chunk decrypts under the session's decrypt-direction key: a 12-byte
\* nonce, then ciphertext and tag
ChunkDecrypts(cr, data) ==
    /\ CRYPTO_AVAILABLE
    /\ cr.shared_secret # None
    /\ ChaCha20Poly1305_decrypt(DecryptionKeyOf(cr.shared_secret),
                                BytesOf(RunsFrom(data, 12))).ok

\* C18: a chunk of a Paired session whose decryption fails adds no bytes to
\* the demux buffer and ends neither the stream loop nor the registration.
C18_DecryptFailureDropsChunk ==
    [][\A c \in Conns :
          (/\ last'.op = "chunk" /\ last'.conn = c
           /\ crypto.is_paired
           /\ ~ChunkDecrypts(crypto, last'.body))
              => (/\ buffer'[c] = buffer[c]
                  /\ conn'[c] = "stream"
                  /\ client_id[c] \in DOMAIN streams')]_vars

\* C19: when decode_frame returns nothing for the unit it was passed, the
\* unit has left the buffer, no frame reaches the sink, frame_count is
\* unchanged and the stream loop goes on.
C19_NoFrameIsTolerated ==
    [][\A c \in Conns :
          (/\ last'.op = "chunk" /\ last'.conn = c
           /\ Len(decoder_calls'[c]) = Len(decoder_calls[c]) + 1
           /\ decoder_calls'[c][Len(decoder_calls'[c])].frame = "None")
              => LET unit  == decoder_calls'[c][Len(decoder_calls'[c])].nal_data
                     whole == RunsCat(buffer[c], last'.body)
                 IN  /\ \E k \in 0..(RunsLen(whole) - RunsLen(unit)) :
                           /\ RunsUpto(RunsFrom(whole, k), RunsLen(unit)) = unit
                           /\ buffer'[c] = RunsFrom(whole, k + RunsLen(unit))
                     /\ frame_count'[c] = frame_count[c]
                     /\ streams' = streams
                     /\ conn'[c] = "stream"
                     /\ running']_vars

\* the decoder returned nothing for the one unit it was passed, and the
\* loop still runs with no frame counted
C19_Witness ==
    \E c \in Conns :
        /\ last.op = "chunk" /\ last.conn = c
        /\ Len(decoder_calls[c]) = 1
        /\ decoder_calls[c][1].frame = "None"
        /\ frame_count[c] = 0
        /\ conn[c] = "stream"

\* C20: a GET or POST request whose path matches no route is answered with
\* status 200 and Content-Length 0, and its connection stays open.
C20_UnknownPathAnswered ==
    last.op = "unknown"
        => (/\ resp.status = 200
            /\ resp.content_length = 0
            /\ resp.body = <<>>
            /\ conn[last.conn] = "open")

\* an unknown path requested on the connection of a Paired session
C20_Witness ==
    last.op = "unknown" /\ resp.status = 200 /\ crypto.is_paired

\* C23: a request line without GET/POST, or with a method and no path, ends
\* the connection: it is never left open with nothing written in reply.
C23_MalformedLineEnds ==
    last.op \in {"no-path", "close"} => conn[last.conn] = "closed"

\* C28: a connection that is accepted starts unpaired, with no shared secret,
\* no transport keys and no SRP context left from an earlier connection.
C28_AcceptedStartsFresh ==
    last.op = "accept"
        => (/\ ~crypto.is_paired
            /\ crypto.shared_secret = None
            /\ crypto.encryption_key = None
            /\ crypto.decryption_key = None
            /\ crypto.srp_session = None
            /\ crypto.srp_key = None)

\* the salt/info constants of the source, known to everyone
KnownConstants ==
    {<<"Pair-Verify-Encrypt-Salt", "Pair-Verify-Encrypt-Info">>,
     <<"Pair-Verify-Decrypt-Salt", "Pair-Verify-Decrypt-Info">>}

\* What an observer of the wire can compute from the two public keys of a
\* pair-verify exchange: HKDF under the known constants of the keys and of
\* their concatenations ...
WireSecrets(client_public, server_public) ==
    {HKDF(k[1], k[2], m) :
        k \in KnownConstants,
        m \in {client_public, server_public,
               client_public \o server_public, server_public \o client_public}}

\* ... and HKDF under the known constants of anything so derived.
WireKeys(client_public, server_public) ==
    {HKDF(k[1], k[2], m) :
        k \in KnownConstants, m \in WireSecrets(client_public, server_public)}

\* C30: after a pair-verify state-1 exchange, neither the shared secret nor a
\* transport key of the session can be computed from the public keys seen on
\* the wire and the fixed constants.
C30_SecretNeedsPrivateKey ==
    (VerifyStep(1) /\ crypto.shared_secret # None)
        => /\ crypto.shared_secret
                \notin WireSecrets(Get(Req, 3, <<>>), Get(Rsp, 3, <<>>))
           /\ EncryptionKeyUsed(crypto)
                \notin WireKeys(Get(Req, 3, <<>>), Get(Rsp, 3, <<>>))
           /\ DecryptionKeyUsed(crypto)
                \notin WireKeys(Get(Req, 3, <<>>), Get(Rsp, 3, <<>>))

\* the call sequences of one stream: add_stream, then update_stream calls,
\* then one remove_stream; and their beginnings
SinkOrder ==
    {<<>>, <<"add_stream">>, <<"add_stream", "update_stream">>,
     <<"add_stream", "remove_stream">>,
     <<"add_stream", "update_stream", "remove_stream">>}

\* C27: the StreamManager calls of a stream are add_stream at its start,
\* update_stream only when the decoder returned a frame, and exactly one
\* remove_stream when the loop ends, with no call after it.
C27_SinkCallOrder ==
    \A c \in Conns :
        /\ sink_calls[c] \in SinkOrder
        /\ conn[c] = "stream"
             => (/\ sink_calls[c] # <<>>
                 /\ sink_calls[c][Len(sink_calls[c])] # "remove_stream"
                 /\ (sink_calls[c][Len(sink_calls[c])] = "update_stream"
                       <=> \E i \in DOMAIN decoder_calls[c] :
                              decoder_calls[c][i].frame # "None"))
        /\ (last.op = "stream-end" /\ last.conn = c)
             => sink_calls[c][Len(sink_calls[c])] = "remove_stream"

\* a stream that was registered, had a frame submitted and has ended
C27_Witness ==
    \E c \in Conns :
        /\ last.op = "stream-end" /\ last.conn = c
        /\ sink_calls[c] = <<"add_stream", "update_stream", "remove_stream">>

\* C21: a connection never waits for a request line longer than 30 seconds,
\* and the timeout closes it and leaves no entry of its session in the
\* registry.
C21_IdleTimeoutCloses ==
    /\ [](\A c \in Conns : conn[c] = "open" => idle[c] <= 30)
    /\ [][\A c \in Conns :
             (last'.op = "timeout" /\ last'.conn = c)
                 => (/\ idle[c] = 30
                     /\ conn'[c] = "closed"
                     /\ client_id[c] \notin DOMAIN streams')]_vars

\* a connection that streamed, then waited 30 seconds and was closed
C21_Witness ==
    \E c \in Conns :
        /\ last.op = "timeout" /\ last.conn = c
        /\ conn[c] = "closed"
        /\ sink_calls[c] = <<"add_stream", "remove_stream">>
        /\ now >= 30

\* C22: every request with a body-length header N > 0 is handed to its
\* handler with a body of exactly N bytes, and every request line read is a
\* request line that was sent.
C22_BodyIsWhole ==
    reader.op # "none"
        => \A i \in DOMAIN reader.requests :
              /\ reader.requests[i].content_length > 0
                    => Len(reader.requests[i].body) = reader.requests[i].content_length
              /\ reader.requests[i].request = RequestLine

\* C24: a POST /stream that finds the registry full is answered with 503
\* and starts no ingestion; it is not answered with 200.
C24_FullSinkRejects ==
    [][\A c \in Conns :
          (/\ last'.op = "stream" /\ last'.conn = c
           /\ ~add_stream(streams, client_id[c], "placeholder").ok)
              => (/\ resp'.status = 503
                  /\ conn'[c] # "stream")]_vars

\* C29: two connections that are open together never have the same
\* client_id, and the end of one connection's stream removes no entry that
\* another connection's stream in progress has in the registry.
C29_SessionIdsUnique ==
    /\ [](\A a \in Conns : \A b \in Conns \ {a} :
             (conn[a] # "closed" /\ conn[b] # "closed")
                 => client_id[a] # client_id[b])
    /\ [][\A a \in Conns : \A b \in Conns \ {a} :
             (/\ last'.op = "stream-end" /\ last'.conn = a
              /\ conn[b] = "stream"
              /\ client_id[b] \in DOMAIN streams)
                 => client_id[b] \in DOMAIN streams']_vars

\* C25: the registry never holds more than max_streams entries, and an
\* add_stream that returns False found the registry full and added nothing,
\* while one that returns True has its entry registered.
C25_RegistryBounded ==
    /\ Cardinality(DOMAIN streams) <= max_streams
    /\ \A t \in Threads :
          (thread[t].pc = "release" /\ thread[t].op = "add_stream")
              => IF thread[t].ret = "False"
                 THEN /\ Cardinality(DOMAIN streams) = max_streams
                      /\ thread[t].id \notin DOMAIN streams
                 ELSE thread[t].id \in DOMAIN streams

\* an add_stream refused at a full registry while the other thread waits
\* with an add_stream of its own
C25_Witness ==
    \E t \in Threads : \E u \in Threads \ {t} :
        /\ thread[t].pc = "release" /\ thread[t].op = "add_stream"
        /\ thread[t].ret = "False"
        /\ thread[u].pc = "acquire" /\ thread[u].op = "add_stream"
        /\ Cardinality(DOMAIN streams) = max_streams

\* the thread is inside a with-self.lock block of the StreamManager
InCritical(t) == thread[t].pc \in {"check", "insert", "update", "remove", "release"}

\* C26: no two threads are inside a critical section of the registry
\* together, and the thread inside holds the lock.
C26_RegistryExclusive ==
    \A t \in Threads :
        InCritical(t) => (lock = t /\ \A u \in Threads \ {t} : ~InCritical(u))

\* one thread about to store a frame while the other waits for the lock
\* to remove a stream
C26_Witness ==
    \E t \in Threads : \E u \in Threads \ {t} :
        /\ thread[t].pc = "update" /\ lock = t
        /\ thread[u].pc = "acquire" /\ thread[u].op = "remove_stream"

\* C31: no pair-verify request changes the Ed25519 key pair of the process:
\* the key that signs in state 1 is the one generated at start, whose public
\* key was advertised and is returned by the info reply.
C31_SigningKeyIsLongTerm ==
    [][(last'.op = "pair-verify" /\ crypto.ed_private_key # None)
           => /\ crypto'.ed_private_key = crypto.ed_private_key
              /\ crypto'.ed_public_key = crypto.ed_public_key]_vars

\* C32: the blob of a pair-verify state-1 reply is encrypted under the key
\* derived from the shared secret of that request: after the request the
\* key in use is the one derived from the current shared secret, and the
\* blob is the plaintext (device id and signature) under that key.
C32_BlobUnderFreshKey ==
    (/\ VerifyStep(1) /\ resp.status = 200
     /\ crypto.shared_secret # None /\ crypto.encryption_key # None)
        => /\ crypto.encryption_key = EncryptionKeyOf(crypto.shared_secret)
           /\ \/ Rsp[5] = urandom(Len(Rsp[5]))
              \/ \E signature \in {urandom(64),
                                    Ed25519_sign(crypto.ed_private_key, <<>>)} :
                    Rsp[5] = ChaCha20Poly1305_encrypt(
                                 EncryptionKeyOf(crypto.shared_secret),
                                 <<0>> \o device_id_bytes \o signature)

\* C33: a pair-setup state-3 request is answered with a proof attribute
\* (0x04) only if an earlier state-1 request created the SRP session the
\* proof is checked against.
C33_ProofNeedsChallenge ==
    [][(/\ last'.op = "pair-setup" /\ StateOf(last'.body) = 3
        /\ resp'.status = 200 /\ 4 \in DOMAIN tlv8_decode(resp'.body))
           => crypto.srp_session # None]_vars

\* the buffer holds a unit delimited by two start markers
HoldsUnit(buf) ==
    LET nal_start == Find(buf, 0)
    IN  nal_start # -1 /\ Find(buf, nal_start + 4) # -1

\* C34: whenever the stream loop waits for its next read (or for the end of
\* the stream), no unit delimited by two start markers is left in its buffer:
\* every unit a chunk completed was submitted in that iteration.
C34_NoUnitLeftWaiting ==
    \A c \in Conns : conn[c] = "stream" => ~HoldsUnit(buffer[c])

\* the units passed to the decoder so far, as one byte string
Submitted(c) == Joined([i \in 1..Len(decoder_calls[c]) |-> decoder_calls[c][i].nal_data])

\* C35: the units passed to the decoder are successive pieces of the byte
\* stream, in its order and none twice (the stream begins with a marker);
\* and the iteration that submits a unit leaves the buffer beginning at the
\* marker that ended the unit, with every byte after the unit kept and none
\* of the unit.
C35_UnitsInOrderOnce ==
    /\ [](\A c \in Conns :
            conn[c] = "stream"
                => /\ RunsUpto(Joined(received[c]), RunsLen(Submitted(c))) = Submitted(c)
                   /\ \A i \in 1..Len(decoder_calls[c]) :
                         RunsUpto(decoder_calls[c][i].nal_data, 4) = Runs(Marker))
    /\ [][\A c \in Conns :
            (/\ last'.op = "chunk" /\ last'.conn = c
             /\ Len(decoder_calls'[c]) = Len(decoder_calls[c]) + 1)
                => /\ RunsUpto(buffer'[c], 4) = Runs(Marker)
                   /\ RunsCat(buffer[c], last'.body)
                         = RunsCat(decoder_calls'[c][Len(decoder_calls'[c])].nal_data,
                                   buffer'[c])]_vars

\* the buffer of c as the cap check of the iteration on the chunk last'.body
\* finds it: the buffer with the chunk appended, less the unit that was cut
\* from its front in this iteration
BeforeCap(c) ==
    LET whole == RunsCat(buffer[c], last'.body)
    IN  IF Len(decoder_calls'[c]) > Len(decoder_calls[c])
        THEN RunsFrom(whole, RunsLen(decoder_calls'[c][Len(decoder_calls'[c])].nal_data))
        ELSE whole

\* C36: an iteration that finds the buffer longer than 1 MiB at its cap
\* check keeps exactly the last 1 MiB of it (the oldest bytes go, the order
\* stays); otherwise the cap check leaves the buffer as it is.
C36_CapKeepsNewest ==
    [][\A c \in Conns :
          (last'.op = "chunk" /\ last'.conn = c)
              => \E pre \in {BeforeCap(c)} :
                    IF RunsLen(pre) > 1048576
                    THEN /\ RunsLen(buffer'[c]) = 1048576
                         /\ RunsCat(RunsUpto(pre, RunsLen(pre) - 1048576), buffer'[c]) = pre
                    ELSE buffer'[c] = pre]_vars

\* more than 1 MiB has been read, the early reads held markers, and the
\* buffer is 1 MiB of the long unit's bytes
C36_Witness ==
    \E c \in Conns :
        /\ conn[c] = "stream"
        /\ RunsLen(Joined(received[c])) > 1048576
        /\ Find(received[c][1], 0) # -1
        /\ buffer[c] = RunsFill(1048576, 170)

\* no stream loop is active and no stream of the receiver is registered
NoStreamLeft ==
    /\ \A c \in Conns : conn[c] # "stream"
    /\ \A id \in DOMAIN streams : id[1] # PeerAddr

\* C37: once stop() has cleared running, every stream loop ends and
\* unregisters its stream, whether or not its peer sends anything more:
\* a state with no active loop and no registered stream follows.
C37_StopEndsStreams == (~running) ~> NoStreamLeft

\* the receiver was stopped and the last stream loop has just ended
C37_Witness ==
    /\ ~running
    /\ last.op = "stream-end"
    /\ NoStreamLeft

\* C38: update_frame (update_stream) for a stream that is not registered
\* leaves the registry as it is: no entry is created, the count stays.
C38_LateFrameIgnored ==
    [][\A t \in Threads :
          (/\ thread[t].pc = "update" /\ thread'[t].pc = "release"
           /\ thread[t].id \notin DOMAIN streams)
              => streams' = streams]_vars

\* a thread has run update_frame for a stream that is not registered, and
\* still holds the lock
C38_Witness ==
    \E t \in Threads :
        /\ thread[t].pc = "release" /\ thread[t].op = "update_frame"
        /\ lock = t
        /\ thread[t].id \notin DOMAIN streams

\* C39: remove_stream for a stream that is not registered (removed before
\* by another caller, or never registered) leaves the registry as it is and
\* returns without an error.
C39_RemoveIdempotent ==
    [][\A t \in Threads :
          (/\ thread[t].pc = "remove" /\ thread'[t].pc # "remove"
           /\ thread[t].id \notin DOMAIN streams)
              => /\ streams' = streams
                 /\ thread'[t].pc = "release"
                 /\ thread'[t].ret = "None"]_vars

\* a thread is about to delete a stream that is not registered any more,
\* while the other thread waits for the lock to unregister the same stream
C39_Witness ==
    \E t \in Threads : \E u \in Threads \ {t} :
        /\ thread[t].pc = "remove" /\ lock = t
        /\ thread[t].id \notin DOMAIN streams
        /\ thread[u].pc = "acquire" /\ thread[u].op = "remove_stream"
        /\ thread[u].id = thread[t].id

====
